---------------------------- MODULE Spec2Model ----------------------------
(***************************************************************************)
(* A model of the OpenAPI -> OWL converters of this repository:            *)
(*   src/api_to_ttlfinal.py   APIToTTL, the compact (Turtle) converter     *)
(*   src/swaggertordfv2.py    EnhancedSwaggerToRDFConverter, the tagged    *)
(*                            (RDF/XML) converter                          *)
(*                                                                         *)
(* A text is a sequence of tokens.  A token is one character, or a word of *)
(* ASCII letters or digits that the code only ever treats as a whole (a    *)
(* word behaves under replace, quote and the regular expressions as each   *)
(* of its letters does).  Python's None is the string "None" where a       *)
(* dictionary key or a type name is meant, and the one-token sequence      *)
(* NoneText where a text is meant.                                         *)
(***************************************************************************)
EXTENDS Integers, Sequences, FiniteSets, TLC

VARIABLES
    arg,            \* pure functions: the argument drawn for this run
    ret,            \* pure functions: the results computed so far
    inputs,         \* the documents still to be converted, in order
    swagger_doc,    \* APIToTTL.swagger_doc: the document being converted
    ttl_content,    \* APIToTTL.ttl_content: the stanzas written so far
    processed_refs, \* APIToTTL.processed_refs: the dedup set
    stack,          \* the call stack of _process_schema_attributes
    pc,             \* the position of convert_swagger
    todo,           \* what convert_swagger still has to do, in order
    warnings,       \* the warnings printed at the depth limit in this conversion
    written_at,     \* history: for each stanza, the depth of the call that wrote it
    expanded,       \* history: the references resolved and recursed into in this
                    \* conversion, with the class each was expanded under, the
                    \* schema the resolver returned and the request it made
    started,        \* history: the converter's state at each call of convert_swagger
    returned,       \* history: the text each call of convert_swagger returned
    swagger_data,   \* EnhancedSwaggerToRDFConverter.swagger_data
    today,          \* the day datetime.now() falls on
    controllers,    \* EnhancedSwaggerToRDFConverter.controllers, in dict order
    endpoints,      \* EnhancedSwaggerToRDFConverter.endpoints, in dict order
    classes,        \* EnhancedSwaggerToRDFConverter.classes
    object_properties,  \* EnhancedSwaggerToRDFConverter.object_properties
    data_properties,    \* EnhancedSwaggerToRDFConverter.data_properties
    printed,        \* the "Error in generate_..." lines printed in this conversion
    rdf_output,     \* the elements convert_to_rdf has put together so far
    xpc,            \* the position of convert_to_rdf
    rdf_returned,   \* history: the output each call of convert_to_rdf returned
    external_docs,  \* APIToTTL.external_docs: the documents fetched, by base URL
    fetched,        \* history: the requests.get calls of this conversion
    fetch_errors,   \* the "Error fetching external reference" lines of this conversion
    raised,         \* history: the errors process_swagger_file raised to its caller
    warned          \* history: the warnings printed by the time each call returned

pureVars == <<arg, ret>>
convVars == <<inputs, swagger_doc, ttl_content, processed_refs, stack, pc, todo,
              warnings, written_at, expanded, started, returned>>
xmlVars == <<swagger_data, today, controllers, endpoints, classes, object_properties,
             data_properties, printed, rdf_output, xpc, rdf_returned>>
refVars == <<external_docs, fetched, fetch_errors, raised, warned>>
vars == <<pureVars, convVars, xmlVars, refVars>>

None == "None"
NoneText == <<"None">>

(***************************************************************************)
(* Generic helpers on sequences.                                           *)
(***************************************************************************)
Range(s) == {s[i] : i \in DOMAIN s}

\* F applied to the value of x: the bound variable holds the value, so that x
\* is evaluated once however often F uses it
WithValue(x, F(_)) == CHOOSE r \in {F(v) : v \in {x}} : TRUE

RECURSIVE Flatten(_)
Flatten(ss) ==
    WithValue(ss, LAMBDA v : IF v = <<>> THEN <<>> ELSE Head(v) \o Flatten(Tail(v)))

RECURSIVE SeqsUpTo(_, _)
SeqsUpTo(S, n) ==
    IF n = 0 THEN {<<>>}
    ELSE LET shorter == SeqsUpTo(S, n - 1)
         IN  shorter \cup {Append(s, c) : s \in shorter, c \in S}

(***************************************************************************)
(* Python string methods, on character sequences.                          *)
(***************************************************************************)
\* str.replace(old, new) for a one-character old and a new that is empty or
\* one character long
Replace(s, old, new) ==
    WithValue(s, LAMBDA v :
        IF new = <<>> THEN SelectSeq(v, LAMBDA c : c # old)
        ELSE [i \in DOMAIN v |-> IF v[i] = old THEN new[1] ELSE v[i]])

\* str.lower(), on the characters of the model's alphabets
LowerChar(c) ==
    CASE c = "A" -> "a"
      [] c = "B" -> "b"
      [] c = "P" -> "p"
      [] c = "T" -> "t"
      [] c = "U" -> "u"
      [] c = "Item" -> "item"
      [] c = "Parameters" -> "parameters"
      [] c = "Request" -> "request"
      [] c = "Response" -> "response"
      [] c = "Example" -> "example"
      [] c = "7B" -> "7b"
      [] c = "7D" -> "7d"
      [] c = "3A" -> "3a"
      [] c = "3F" -> "3f"
      [] OTHER   -> c

Lower(s) == [i \in DOMAIN s |-> LowerChar(s[i])]

\* str.strip(c)
RECURSIVE LStrip(_, _)
LStrip(s, c) == IF s # <<>> /\ Head(s) = c THEN LStrip(Tail(s), c) ELSE s

RECURSIVE RStrip(_, _)
RStrip(s, c) ==
    IF s # <<>> /\ s[Len(s)] = c THEN RStrip(SubSeq(s, 1, Len(s) - 1), c) ELSE s

Strip(s, c) == RStrip(LStrip(s, c), c)

\* The letter tokens and the digit tokens of the model's texts
Letters == {"a", "b", "p", "q", "r", "t", "u", "A", "B", "P", "T", "U", "API", "Endpoint",
            "components", "schemas", "has", "Item", "item", "Parameters", "parameters",
            "Request", "request", "Response", "response", "Example", "example",
            "name", "in", "required", "value", "get", "post", "pets", "unnamed",
            "param", "body", "put", "delete", "patch", "options", "head"}
Digits == {ToString(i) : i \in 0..20} \cup {"200", "404", "7B", "7D", "3A", "3F", "7b", "7d", "3a", "3f"}

(***************************************************************************)
(* urllib.parse.quote(s) with its default safe="/": letters, digits and    *)
(* "_.-~" and "/" are kept, every other character becomes %XX.             *)
(***************************************************************************)
PercentEncode(c) ==
    CASE c = " " -> <<"%", "20">>
      [] c = "%" -> <<"%", "25">>
      [] c = "{" -> <<"%", "7B">>
      [] c = "}" -> <<"%", "7D">>
      [] c = "#" -> <<"%", "23">>
      [] c = ":" -> <<"%", "3A">>
      [] OTHER   -> <<"%", "3F">>

QuoteChar(c) ==
    IF c \in Letters \cup Digits \cup {"_", ".", "-", "~", "/"} THEN <<c>>
    ELSE PercentEncode(c)

\* a text of kept characters is returned as it is
quote(s) ==
    WithValue(s, LAMBDA v :
        IF \A i \in DOMAIN v : QuoteChar(v[i]) = <<v[i]>> THEN v
        ELSE Flatten([i \in DOMAIN v |-> QuoteChar(v[i])]))


(***************************************************************************)
(* APIToTTL._sanitize_name                                                 *)
(***************************************************************************)
_sanitize_name(name) ==
    IF name = NoneText THEN <<>>
    ELSE LET nospace == Replace(name, " ", <<>>)
         IN  quote(Replace(Replace(Replace(nospace, "/", <<"_">>), "{", <<>>), "}", <<>>))

(***************************************************************************)
(* EnhancedSwaggerToRDFConverter.sanitize_for_uri                          *)
(***************************************************************************)
\* re.sub(r'[^a-zA-Z0-9\-_]', '', s)
RECURSIVE KeepUriChars(_)
KeepUriChars(s) ==
    IF s = <<>> THEN <<>>
    ELSE (IF Head(s) \in Letters \cup Digits \cup {"-", "_"} THEN <<Head(s)>> ELSE <<>>)
         \o KeepUriChars(Tail(s))

\* re.sub(r'-+', '-', s)
RECURSIVE CollapseHyphens(_)
CollapseHyphens(s) ==
    IF Len(s) < 2 THEN s
    ELSE IF s[1] = "-" /\ s[2] = "-" THEN CollapseHyphens(Tail(s))
    ELSE <<Head(s)>> \o CollapseHyphens(Tail(s))

unnamed == <<"unnamed">>

sanitize_for_uri(text) ==
    IF text = NoneText \/ text = <<>> THEN unnamed
    ELSE LET replaced  == Lower(Replace(Replace(text, " ", <<"-">>), "/", <<"-">>))
             sanitized == Strip(CollapseHyphens(KeepUriChars(replaced)), "-")
         IN  IF sanitized = <<>> THEN unnamed ELSE sanitized

(***************************************************************************)
(* The type mappers.  A Python dict is a function; d.get(k, default) is    *)
(* DictGet.                                                                *)
(***************************************************************************)
DictGet(d, k, default) == IF k \in DOMAIN d THEN d[k] ELSE default

EmptyDict == [k \in {} |-> None]

\* APIToTTL._map_type_to_xsd: the two-level table
type_mapping ==
    [string  |-> (None :> "xsd:string" @@ "date" :> "xsd:date"
                  @@ "date-time" :> "xsd:dateTime" @@ "byte" :> "xsd:base64Binary"
                  @@ "binary" :> "xsd:base64Binary" @@ "password" :> "xsd:string"
                  @@ "email" :> "xsd:string" @@ "uuid" :> "xsd:string"
                  @@ "uri" :> "xsd:anyURI"),
     integer |-> (None :> "xsd:integer" @@ "int32" :> "xsd:int" @@ "int64" :> "xsd:long"),
     number  |-> (None :> "xsd:decimal" @@ "float" :> "xsd:float"
                  @@ "double" :> "xsd:double"),
     boolean |-> (None :> "xsd:boolean"),
     object  |-> (None :> "xsd:anyType")]

\* a mutant: every miss falls back to the generic string datatype
Mut_map_type_to_xsd_string_fallback(swagger_type, format_) ==
    LET type_formats == DictGet(type_mapping, swagger_type, EmptyDict)
    IN  DictGet(type_formats, format_, "xsd:string")

_map_type_to_xsd(swagger_type, format_) ==
    LET type_formats == DictGet(type_mapping, swagger_type, EmptyDict)
    IN  DictGet(type_formats, format_, DictGet(type_formats, None, "xsd:string"))

\* EnhancedSwaggerToRDFConverter._get_xsd_type: its two flat tables
type_map ==
    [string |-> "string", integer |-> "integer", number |-> "decimal",
     boolean |-> "boolean"]

format_map ==
    ("date" :> "date" @@ "date-time" :> "dateTime" @@ "uri" :> "anyURI"
     @@ "email" :> "string" @@ "uuid" :> "string" @@ "int32" :> "integer"
     @@ "int64" :> "integer" @@ "float" :> "decimal" @@ "double" :> "decimal")

\* prop_def.get('type') and prop_def.get('format') are None when absent
_get_xsd_type(prop_def) ==
    LET prop_type   == prop_def.type
        prop_format == prop_def.format
    IN  IF prop_format # None /\ prop_format \in DOMAIN format_map
        THEN format_map[prop_format]
        ELSE IF prop_type # None /\ prop_type \in DOMAIN type_map
        THEN type_map[prop_type]
        ELSE "string"

(***************************************************************************)
(* The datatype an output names.  The compact form writes the prefixed     *)
(* name xsd:<local> under "@prefix xsd: <http://www.w3.org/2001/XMLSchema#>"*)
(* (api_to_ttlfinal.py:20); the tagged form writes                         *)
(* rdf:resource="http://www.w3.org/2001/XMLSchema#<local>"                 *)
(* (swaggertordfv2.py:1482).  Both are the pair <<namespace, local>>.      *)
(***************************************************************************)
XSD_NS == "http://www.w3.org/2001/XMLSchema#"

PrefixedLocal ==
    ("xsd:string" :> "string" @@ "xsd:date" :> "date" @@ "xsd:dateTime" :> "dateTime"
     @@ "xsd:base64Binary" :> "base64Binary" @@ "xsd:anyURI" :> "anyURI"
     @@ "xsd:integer" :> "integer" @@ "xsd:int" :> "int" @@ "xsd:long" :> "long"
     @@ "xsd:decimal" :> "decimal" @@ "xsd:float" :> "float" @@ "xsd:double" :> "double"
     @@ "xsd:boolean" :> "boolean" @@ "xsd:anyType" :> "anyType")

CompactDatatype(prefixed) == <<XSD_NS, PrefixedLocal[prefixed]>>
TaggedDatatype(local) == <<XSD_NS, local>>

(***************************************************************************)
(* JSON values of the input document.                                      *)
(*                                                                         *)
(* A schema value (a component schema, a property definition, the schema   *)
(* of a parameter or of a body) is a record: ref is the text of its        *)
(* '$ref' (NoneText when the key is absent), type and format are None when *)
(* absent, hasItems and hasProperties say whether the keys 'items' and     *)
(* 'properties' are present.  A Python dict whose order matters is a       *)
(* sequence of entries.                                                    *)
(***************************************************************************)
NoItems == [ref |-> NoneText, type |-> None, format |-> None]

EmptySchema ==
    [ref |-> NoneText, type |-> None, format |-> None, hasItems |-> FALSE,
     items |-> NoItems, hasProperties |-> FALSE, properties |-> <<>>,
     required |-> {}, description |-> <<>>]

RefTo(name) == <<"#", "/", "components", "/", "schemas", "/", name>>

RefValue(r) == [EmptySchema EXCEPT !.ref = r]
PrimValue(ty, f) == [EmptySchema EXCEPT !.type = ty, !.format = f]
ArrayOfRef(r) ==
    [EmptySchema EXCEPT !.type = "array", !.hasItems = TRUE,
                        !.items = [ref |-> r, type |-> None, format |-> None]]
ArrayOfPrim(ty, f) ==
    [EmptySchema EXCEPT !.type = "array", !.hasItems = TRUE,
                        !.items = [ref |-> NoneText, type |-> ty, format |-> f]]
ArrayOfObject ==
    [EmptySchema EXCEPT !.type = "array", !.hasItems = TRUE,
                        !.items = [ref |-> NoneText, type |-> "object", format |-> None]]

ObjectValue(props, req) ==
    [EmptySchema EXCEPT !.type = "object", !.hasProperties = TRUE,
                        !.properties = props, !.required = req]
BareObject == [EmptySchema EXCEPT !.type = "object"]

Prop(n, d) == [name |-> n, def |-> d]

(***************************************************************************)
(* APIToTTL._resolve_schema_ref.  current_file is set to None by __init__  *)
(* and assigned nowhere else.                                              *)
(***************************************************************************)
current_file == NoneText

\* str.split(sep)
RECURSIVE Split(_, _)
Split(s, sep) ==
    WithValue(s, LAMBDA v :
        IF v = <<>> THEN << <<>> >>
        ELSE WithValue(Split(Tail(v), sep), LAMBDA rest :
                 IF Head(v) = sep THEN << <<>> >> \o rest
                 ELSE << <<Head(v)>> \o Head(rest) >> \o Tail(rest)))

\* 'x' in s, for a text x
Contains(s, x) ==
    \E i \in 1..(Len(s) - Len(x) + 1) : SubSeq(s, i, i + Len(x) - 1) = x

\* swagger_doc['components']['schemas'] as the pointer walk sees it
ComponentSchemas(doc) ==
    IF doc.hasComponents /\ doc.components.hasSchemas THEN doc.components.schemas
    ELSE <<>>

\* the walk "for part in parts: if part: current_doc = current_doc.get(part, {})"
\* from the root document: a pointer /components/schemas/<name> yields that
\* schema; the other pointers of the modelled documents name nothing and yield {}
WalkPointer(doc, ref_path) ==
    WithValue(SelectSeq(Split(ref_path, "/"), LAMBDA part : part # <<>>), LAMBDA parts :
        LET found == {i \in DOMAIN ComponentSchemas(doc) :
                         /\ Len(parts) = 3
                         /\ parts[1] = <<"components">>
                         /\ parts[2] = <<"schemas">>
                         /\ ComponentSchemas(doc)[i].name = parts[3]}
        IN  IF found = {} THEN EmptySchema
            ELSE ComponentSchemas(doc)[CHOOSE i \in found : TRUE].schema)

\* d[key] = value on a dict kept as a sequence of entries: a key already
\* present keeps its place
DictPut(d, key, value) ==
    IF \E i \in DOMAIN d : d[i].key = key
    THEN [i \in DOMAIN d |-> IF d[i].key = key THEN [key |-> key, value |-> value]
                             ELSE d[i]]
    ELSE Append(d, [key |-> key, value |-> value])

\* key in d, and d[key], on such a dict
HasKey(d, key) == \E i \in DOMAIN d : d[i].key = key
Lookup(d, key) == d[CHOOSE i \in DOMAIN d : d[i].key = key].value

\* "'://' in ref"
IsUrl(ref) == Contains(ref, <<":", "/", "/">>)

\* ref.split('#')[0], and "ref.split('#')[1] if '#' in ref else ''"
BaseOf(ref) == Split(ref, "#")[1]
PointerOf(ref) == IF Contains(ref, <<"#">>) THEN Split(ref, "#")[2] ELSE <<>>

\* what requests.get(base_url) followed by response.json() comes to: an
\* exception, or the parsed document
FetchFailed == [ok |-> FALSE]
FetchedJson(doc) == [ok |-> TRUE, json |-> doc]

\* one call of _resolve_schema_ref: the schema it returns, the cache it
\* leaves, the requests.get calls it made and the error lines it printed
Resolution(schema, docs, gets, errors) ==
    [schema |-> schema, external_docs |-> docs, fetched |-> gets, errors |-> errors]

\* "if base_url not in self.external_docs"
Mut_Cached_never(docs, base_url) == FALSE

Cached(docs, base_url) == HasKey(docs, base_url)

Mut_FetchError_nonempty(docs, base_url) ==
    Resolution([EmptySchema EXCEPT !.hasProperties = TRUE,
                    !.properties = <<Prop(<<"p">>, PrimValue("string", None))>>],
               docs, <<[base_url |-> base_url, ok |-> FALSE]>>, <<base_url>>)

\* "except Exception as e: print(Error fetching external reference ...); return {}"
FetchError(docs, base_url) ==
    Resolution(EmptySchema, docs, <<[base_url |-> base_url, ok |-> FALSE]>>,
               <<base_url>>)

\* doc is self.swagger_doc, docs is self.external_docs, response is what the
\* web answers if base_url is requested
_resolve_schema_ref(doc, ref, docs, response) ==
    IF ref = <<>> \/ ref = NoneText THEN Resolution(EmptySchema, docs, <<>>, <<>>)
    ELSE IF Head(ref) # "#"
    THEN IF IsUrl(ref)
         THEN LET base_url == BaseOf(ref)
                  ref_path == PointerOf(ref)
              IN  IF ~Cached(docs, base_url)
                  THEN IF ~response.ok THEN FetchError(docs, base_url)
                       ELSE Resolution(WalkPointer(response.json, ref_path),
                                       DictPut(docs, base_url, response.json),
                                       <<[base_url |-> base_url, ok |-> TRUE]>>, <<>>)
                  ELSE Resolution(WalkPointer(Lookup(docs, base_url), ref_path),
                                  docs, <<>>, <<>>)
         ELSE \* a relative file path: "if self.current_file: ... else: return {}"
              Resolution(EmptySchema, docs, <<>>, <<>>)
    ELSE Resolution(WalkPointer(doc, Tail(ref)), docs, <<>>, <<>>)

(***************************************************************************)
(* The stanzas of ttl_content.  Each _add_* call appends the lines of one  *)
(* stanza; a stanza is kept as the record of what its lines say.           *)
(***************************************************************************)
Stanza(kind, id) ==
    [kind |-> kind, id |-> id, supers |-> <<>>, label |-> <<>>, comment |-> <<>>,
     domain |-> <<>>, range |-> <<>>, itemType |-> <<>>, required |-> FALSE,
     value |-> NoneText]

\* _escape_string: backslash, double quote and newline, each prefixed or
\* replaced by a backslash sequence; None gives the empty text
EscapeStringChar(c) ==
    CASE c = "\\" -> <<"\\", "\\">>
      [] c = "\"" -> <<"\\", "\"">>
      [] c = "\n" -> <<"\\", "n">>
      [] OTHER -> <<c>>

_escape_string(text) ==
    IF text = NoneText THEN <<>>
    ELSE Flatten([i \in DOMAIN text |-> EscapeStringChar(text[i])])

\* _add_class writes class_name and description as they are
_add_class(class_name, description, super_classes) ==
    [Stanza("Class", _sanitize_name(class_name)) EXCEPT
        !.supers = [i \in DOMAIN super_classes |-> _sanitize_name(super_classes[i])],
        !.label = class_name,
        !.comment = description]

Collection == <<"Collection">>

_add_object_property(prop_name, domain, range_class, is_required, is_collection) ==
    [Stanza("ObjectProperty", _sanitize_name(<<"has", "_">> \o prop_name)) EXCEPT
        !.domain = _sanitize_name(domain),
        !.range = IF is_collection THEN Collection ELSE _sanitize_name(range_class),
        !.itemType = IF is_collection THEN _sanitize_name(range_class) ELSE <<>>,
        !.required = is_required]

_add_data_property(prop_name, domain, range_type, description, is_required, is_collection, value) ==
    [Stanza("DatatypeProperty", _sanitize_name(prop_name)) EXCEPT
        !.domain = _sanitize_name(domain),
        !.range = IF is_collection THEN Collection ELSE <<range_type>>,
        !.itemType = IF is_collection THEN <<range_type>> ELSE <<>>,
        !.comment = _escape_string(description),
        !.required = is_required,
        !.value = IF value = NoneText THEN NoneText ELSE _escape_string(value)]

\* _write_prefixes and _write_ontology_header: fixed text, and the title and
\* description of the document
PrefixBlock == Stanza("Prefixes", <<>>)

\* info = self.swagger_doc.get('info', {}), and the defaults of its two get calls
InfoOf(doc) ==
    IF doc.hasInfo THEN doc.info
    ELSE [title |-> <<"API", " ", "Ontology">>, description |-> <<>>]

_write_ontology_header(doc) ==
    [Stanza("Ontology", <<>>) EXCEPT
        !.label = _escape_string(InfoOf(doc).title),
        !.comment = _escape_string(InfoOf(doc).description)]

\* _write_base_classes: one class per entry of the tags section
_write_base_classes(doc) ==
    [i \in DOMAIN doc.tags |->
        [Stanza("Class", _sanitize_name(doc.tags[i].name)) EXCEPT
            !.label = doc.tags[i].name,
            !.comment = doc.tags[i].description]]

(***************************************************************************)
(* What convert_swagger has to do, in the order of the code, as a list of  *)
(* tasks: write stanzas, call _process_schema_attributes at depth 0        *)
(* ("expand"), resolve the '$ref' of a request body and call it            *)
(* ("request_ref"), process an operation under one of its tags, process a  *)
(* component schema.                                                       *)
(***************************************************************************)
WriteTask(stanzas) == [t |-> "write", stanzas |-> stanzas]
ExpandTask(class_name, schema) ==
    [t |-> "expand", class_name |-> class_name, schema |-> schema]
RequestRefTask(class_name, ref) ==
    [t |-> "request_ref", class_name |-> class_name, ref |-> ref]
OperationTask(path, method, operation, tag) ==
    [t |-> "operation", path |-> path, method |-> method, operation |-> operation,
     tag |-> tag]
SchemaTask(schema_name, schema) ==
    [t |-> "schema", schema_name |-> schema_name, schema |-> schema]

\* json.dumps of a string value
JsonDumps(v) == <<"\"">> \o v \o <<"\"">>

\* str(param.get('required', False)).lower()
BoolText(b) == IF b THEN <<"true">> ELSE <<"false">>

\* _process_examples
_process_examples(parent_class, examples) ==
    Flatten([i \in DOMAIN examples |->
        LET example == examples[i]
            example_class == parent_class \o <<"_", "Example", "_">>
                             \o _sanitize_name(example.name)
        IN  <<WriteTask(
                <<_add_class(example_class, example.description, <<parent_class>>)>>
                \o (IF example.hasValue
                    THEN <<_add_data_property(<<"value">>, example_class, "xsd:string",
                                              <<>>, FALSE, FALSE,
                                              JsonDumps(example.value))>>
                    ELSE <<>>))>>])

\* _process_parameters
_process_parameters(operation_class, parameters) ==
    LET params_class == operation_class \o <<"_", "Parameters">>
    IN  <<WriteTask(<<_add_class(params_class, <<"Parameters">>, <<operation_class>>)>>)>>
        \o Flatten([i \in DOMAIN parameters |->
            LET param == parameters[i]
                param_class == params_class \o <<"_">> \o _sanitize_name(param.name)
            IN  <<WriteTask(
                    <<_add_class(param_class, param.description, <<params_class>>),
                      _add_data_property(<<"name">>, param_class, "xsd:string", <<>>,
                                         TRUE, FALSE, param.name),
                      _add_data_property(<<"in">>, param_class, "xsd:string", <<>>,
                                         TRUE, FALSE, param.in),
                      _add_data_property(<<"required">>, param_class, "xsd:boolean",
                                         <<>>, FALSE, FALSE,
                                         BoolText(param.required))>>)>>
                \o (IF param.hasSchema
                    THEN <<ExpandTask(param_class, param.schema)>>
                    ELSE <<>>)])

\* _process_request_body
_process_request_body(operation_class, request_body) ==
    IF ~request_body.hasContent THEN <<>>
    ELSE Flatten([i \in DOMAIN request_body.content |->
        LET content_def == request_body.content[i]
            request_class == operation_class \o <<"_", "Request">>
        IN  <<WriteTask(<<_add_class(request_class, request_body.description,
                                     <<operation_class>>)>>)>>
            \o (IF ~content_def.hasSchema THEN <<>>
                ELSE IF content_def.schema.ref # NoneText
                THEN <<RequestRefTask(request_class, content_def.schema.ref)>>
                ELSE <<ExpandTask(request_class, content_def.schema)>>)
            \o (IF content_def.hasExamples
                THEN _process_examples(request_class, content_def.examples)
                ELSE <<>>)])

\* _process_responses
_process_responses(operation_class, responses) ==
    Flatten([i \in DOMAIN responses |->
        LET response == responses[i]
            response_class == operation_class \o <<"_", "Response", "_">>
                              \o response.status_code
        IN  <<WriteTask(<<_add_class(response_class, response.description,
                                     <<operation_class>>)>>)>>
            \o (IF ~response.hasContent THEN <<>>
                ELSE Flatten([j \in DOMAIN response.content |->
                    LET content_def == response.content[j]
                    IN  (IF content_def.hasSchema
                         THEN <<ExpandTask(response_class, content_def.schema)>>
                         ELSE <<>>)
                        \o (IF content_def.hasExamples
                            THEN _process_examples(response_class, content_def.examples)
                            ELSE <<>>)]))])

\* _process_operation: the class of the operation under this tag, then its
\* parameters, its request body and its responses
OperationClass(path, method, operation, tag) ==
    LET operation_id ==
            IF operation.operationId # NoneText THEN operation.operationId
            ELSE <<method, "_">> \o _sanitize_name(path)
    IN  tag \o <<"_">> \o operation_id

_process_operation(path, method, operation, tag) ==
    LET operation_class == OperationClass(path, method, operation, tag)
    IN  <<WriteTask(<<_add_class(operation_class, operation.description, <<tag>>)>>)>>
        \o (IF operation.parameters # <<>>
            THEN _process_parameters(operation_class, operation.parameters)
            ELSE <<>>)
        \o (IF operation.hasRequestBody
            THEN _process_request_body(operation_class, operation.requestBody)
            ELSE <<>>)
        \o _process_responses(operation_class, operation.responses)

\* _process_paths: every operation whose method is one of the five, once per tag
ProcessedMethods == {"get", "post", "put", "delete", "patch"}

\* self.swagger_doc.get('paths', {})
PathsOf(doc) == IF doc.hasPaths THEN doc.paths ELSE <<>>

_process_paths(doc) ==
    Flatten([i \in DOMAIN PathsOf(doc) |->
        Flatten([j \in DOMAIN PathsOf(doc)[i].item |->
            LET entry == PathsOf(doc)[i].item[j]
            IN  IF entry.method \in ProcessedMethods
                THEN [k \in DOMAIN entry.operation.tags |->
                         OperationTask(PathsOf(doc)[i].path, entry.method,
                                       entry.operation, entry.operation.tags[k])]
                ELSE <<>>])])

\* the loop of convert_swagger over components/schemas
ComponentTasks(doc) ==
    [i \in DOMAIN ComponentSchemas(doc) |->
        SchemaTask(ComponentSchemas(doc)[i].name, ComponentSchemas(doc)[i].schema)]

\* prop_def.get('type', 'string') at the call sites of _map_type_to_xsd
PropType(prop_def) == IF prop_def.type = None THEN "string" ELSE prop_def.type

(***************************************************************************)
(* APIToTTL.convert_swagger as a machine.  _process_schema_attributes is   *)
(* recursive: its activations are the frames of stack, the last one        *)
(* running.  A frame holds the arguments of the call, the index i of the   *)
(* next property of schema['properties'] and, in after, the stanza its     *)
(* caller adds once it returns (the _add_object_property that follows the  *)
(* recursive call).                                                        *)
(***************************************************************************)
max_recursion_depth == 10

Frame(class_name, schema, depth, after) ==
    [class_name |-> class_name, schema |-> schema, depth |-> depth, i |-> 1,
     after |-> after]

Top == stack[Len(stack)]

\* self.swagger_doc, once convert_swagger has set it (None is the empty sequence)
Doc == swagger_doc[1]

Mut_DepthReached_strict(depth) == depth > max_recursion_depth

\* "if depth >= self.max_recursion_depth"
DepthReached(depth) == depth >= max_recursion_depth

Mut_NestedDepth_same(depth) == depth

\* the depth argument of the recursive calls
NestedDepth(depth) == depth + 1

\* ref_key = f"{ref}_{depth}"
RefKey(ref, depth) == ref \o <<"_", ToString(depth)>>

Mut_AlreadyProcessed_never(ref_key, refs) == FALSE

\* "ref_key in self.processed_refs"
AlreadyProcessed(ref_key, refs) == ref_key \in refs

\* a frame that has passed the depth check and still has a property to process
HasProperty(f) ==
    /\ ~DepthReached(f.depth)
    /\ f.schema.hasProperties
    /\ f.i <= Len(f.schema.properties)

CurrentProp == Top.schema.properties[Top.i]
IsRequired == CurrentProp.name \in Top.schema.required

Write(stanzas, depth) ==
    /\ ttl_content' = ttl_content \o stanzas
    /\ written_at' = written_at \o [k \in DOMAIN stanzas |-> depth]

\* the running call goes on to its next property
Advance == stack' = [stack EXCEPT ![Len(stack)].i = @ + 1]

\* the running call makes a recursive call
Call(frame) == stack' = Append([stack EXCEPT ![Len(stack)].i = @ + 1], frame)

Mut_Returned_all(stk) == <<>>

\* the stack once the running call has returned
Returned(stk) == SubSeq(stk, 1, Len(stk) - 1)

\* the running call returns, and its caller adds the stanza that follows the call
Return ==
    /\ stack' = Returned(stack)
    /\ Write(Top.after, Top.depth - 1)

\* what the web serves at the URLs of the references: nothing (the request or
\* the parse fails), or a document with a component schema X
ExternalSchemas ==
    {<<[name |-> <<"X">>, schema |-> BareObject]>>,
     <<[name |-> <<"X">>,
        schema |-> ObjectValue(<<Prop(<<"p">>, PrimValue("integer", None))>>, {})]>>}

WebResponses ==
    {FetchFailed}
    \cup {FetchedJson([hasComponents |-> TRUE,
                       components |-> [hasSchemas |-> TRUE, schemas |-> schemas]]) :
              schemas \in ExternalSchemas}

\* the answers the web can give while this reference is resolved; no request
\* is made for a reference that is not a URL, or whose base is in the cache
Responses(ref) ==
    IF ref # <<>> /\ ref # NoneText /\ Head(ref) # "#" /\ IsUrl(ref)
       /\ ~Cached(external_docs, BaseOf(ref))
    THEN WebResponses
    ELSE {FetchFailed}

\* self._resolve_schema_ref(ref) in the running conversion
Resolve(ref, response) == _resolve_schema_ref(Doc, ref, external_docs, response)

\* what the call leaves on the converter, and the lines it printed
Resolved(r) ==
    /\ external_docs' = r.external_docs
    /\ fetched' = fetched \o r.fetched
    /\ fetch_errors' = fetch_errors \o r.errors
    /\ UNCHANGED <<raised, warned>>

\* convert_swagger is called on this converter with the next document
convert_swagger ==
    /\ pc \in {"idle", "done"}
    /\ inputs # <<>>
    /\ LET doc == Head(inputs)
       IN  /\ swagger_doc' = <<doc>>
           /\ Write(<<PrefixBlock, _write_ontology_header(doc)>>
                    \o _write_base_classes(doc), -1)
           /\ todo' = _process_paths(doc) \o ComponentTasks(doc)
    /\ inputs' = Tail(inputs)
    /\ started' = Append(started, [processed_refs |-> processed_refs,
                                   ttl_content |-> ttl_content])
    /\ pc' = "running"
    /\ warnings' = <<>>
    /\ expanded' = <<>>
    /\ fetched' = <<>>
    /\ fetch_errors' = <<>>
    /\ UNCHANGED <<processed_refs, stack, returned, external_docs, raised, warned>>
    /\ UNCHANGED <<pureVars, xmlVars>>

\* the "Basic validation" of process_swagger_file: the reason of the
\* ValueError it raises, or None
Invalid(doc) ==
    IF ~doc.hasVersion THEN <<"version", " ", "not", " ", "specified">>
    ELSE IF ~doc.hasInfo THEN <<"missing", " ", "info", " ", "section">>
    ELSE IF ~doc.hasPaths THEN <<"missing", " ", "paths", " ", "section">>
    ELSE NoneText

\* process_swagger_file on a document that fails the validation: the
\* ValueError is raised again as "Error converting Swagger to TTL: ..."; no
\* APIToTTL has been made
input_error ==
    /\ pc \in {"idle", "done"}
    /\ inputs # <<>>
    /\ Invalid(Head(inputs)) # NoneText
    /\ raised' = Append(raised, [type |-> "Exception",
                                 reason |-> Invalid(Head(inputs))])
    /\ inputs' = Tail(inputs)
    /\ UNCHANGED <<swagger_doc, ttl_content, processed_refs, stack, pc, todo, warnings,
                   written_at, expanded, started, returned>>
    /\ UNCHANGED <<external_docs, fetched, fetch_errors, warned>>
    /\ UNCHANGED <<pureVars, xmlVars>>

\* process_swagger_file: a new APIToTTL (__init__), then convert_swagger
process_swagger_file ==
    /\ pc \in {"idle", "done"}
    /\ inputs # <<>>
    /\ Invalid(Head(inputs)) = NoneText
    /\ LET doc == Head(inputs)
       IN  /\ swagger_doc' = <<doc>>
           /\ ttl_content' = <<PrefixBlock, _write_ontology_header(doc)>>
                             \o _write_base_classes(doc)
           /\ written_at' = [k \in 1..(2 + Len(doc.tags)) |-> -1]
           /\ todo' = _process_paths(doc) \o ComponentTasks(doc)
    /\ inputs' = Tail(inputs)
    /\ processed_refs' = {}
    /\ started' = Append(started, [processed_refs |-> {}, ttl_content |-> <<>>])
    /\ pc' = "running"
    /\ warnings' = <<>>
    /\ expanded' = <<>>
    /\ external_docs' = <<>>
    /\ fetched' = <<>>
    /\ fetch_errors' = <<>>
    /\ UNCHANGED <<stack, returned, raised, warned>>
    /\ UNCHANGED <<pureVars, xmlVars>>

Running == pc = "running" /\ stack = <<>> /\ todo # <<>>

\* _process_paths reaches an operation and one of its tags
process_operation ==
    /\ Running
    /\ Head(todo).t = "operation"
    /\ LET task == Head(todo)
       IN  todo' = _process_operation(task.path, task.method, task.operation, task.tag)
                   \o Tail(todo)
    /\ UNCHANGED <<inputs, swagger_doc, ttl_content, processed_refs, stack, pc,
                   warnings, written_at, expanded, started, returned>>
    /\ UNCHANGED <<pureVars, xmlVars>>
    /\ UNCHANGED refVars

\* the _add_class and _add_data_property calls made outside the expansion
write_stanzas ==
    /\ Running
    /\ Head(todo).t = "write"
    /\ Write(Head(todo).stanzas, -1)
    /\ todo' = Tail(todo)
    /\ UNCHANGED <<inputs, swagger_doc, processed_refs, stack, pc, warnings, expanded,
                   started, returned>>
    /\ UNCHANGED <<pureVars, xmlVars>>
    /\ UNCHANGED refVars

\* self._process_schema_attributes(<class>, <schema>) of a parameter, of an
\* inline request body and of a response
expand_schema ==
    /\ Running
    /\ Head(todo).t = "expand"
    /\ stack' = <<Frame(Head(todo).class_name, Head(todo).schema, 0, <<>>)>>
    /\ todo' = Tail(todo)
    /\ UNCHANGED <<inputs, swagger_doc, ttl_content, processed_refs, pc, warnings,
                   written_at, expanded, started, returned>>
    /\ UNCHANGED <<pureVars, xmlVars>>
    /\ UNCHANGED refVars

\* the '$ref' of a request body: resolved and expanded at depth 0, without a
\* look at processed_refs
expand_request_ref ==
    /\ Running
    /\ Head(todo).t = "request_ref"
    /\ \E response \in Responses(Head(todo).ref) :
           LET r == Resolve(Head(todo).ref, response)
           IN  /\ stack' = <<Frame(Head(todo).class_name, r.schema, 0, <<>>)>>
               /\ expanded' = Append(expanded, [ref |-> Head(todo).ref, depth |-> 0,
                                                via |-> "requestBody",
                                                ref_class |-> Head(todo).class_name,
                                                schema |-> r.schema,
                                                fetch |-> r.fetched])
               /\ Resolved(r)
    /\ todo' = Tail(todo)
    /\ UNCHANGED <<inputs, swagger_doc, ttl_content, processed_refs, pc, warnings,
                   written_at, started, returned>>
    /\ UNCHANGED <<pureVars, xmlVars>>

\* a component schema whose name is not in processed_refs
component_schema ==
    /\ Running
    /\ Head(todo).t = "schema"
    /\ Head(todo).schema_name \notin processed_refs
    /\ processed_refs' = processed_refs \cup {Head(todo).schema_name}
    /\ Write(<<_add_class(Head(todo).schema_name, Head(todo).schema.description,
                          <<>>)>>, -1)
    /\ stack' = <<Frame(Head(todo).schema_name, Head(todo).schema, 0, <<>>)>>
    /\ todo' = Tail(todo)
    /\ UNCHANGED <<inputs, swagger_doc, pc, warnings, expanded, started, returned>>
    /\ UNCHANGED <<pureVars, xmlVars>>
    /\ UNCHANGED refVars

\* a component schema whose name is in processed_refs
component_schema_skip ==
    /\ Running
    /\ Head(todo).t = "schema"
    /\ Head(todo).schema_name \in processed_refs
    /\ todo' = Tail(todo)
    /\ UNCHANGED <<inputs, swagger_doc, ttl_content, processed_refs, stack, pc,
                   warnings, written_at, expanded, started, returned>>
    /\ UNCHANGED <<pureVars, xmlVars>>
    /\ UNCHANGED refVars

\* return '\n'.join(self.ttl_content)
return_text ==
    /\ pc = "running"
    /\ stack = <<>>
    /\ todo = <<>>
    /\ pc' = "done"
    /\ returned' = Append(returned, ttl_content)
    /\ warned' = Append(warned, Len(warnings) + Len(fetch_errors))
    /\ UNCHANGED <<inputs, swagger_doc, ttl_content, processed_refs, stack, todo,
                   warnings, written_at, expanded, started>>
    /\ UNCHANGED <<external_docs, fetched, fetch_errors, raised>>
    /\ UNCHANGED <<pureVars, xmlVars>>

(***************************************************************************)
(* The steps of _process_schema_attributes and _process_array_property.    *)
(***************************************************************************)
Expanding == pc = "running" /\ stack # <<>>

\* "if depth >= self.max_recursion_depth: print(Warning ...); return".  The
\* warning names class_name; the entry also keeps, as history, the call that
\* made this one and the property it was processing.
depth_limit ==
    /\ Expanding
    /\ DepthReached(Top.depth)
    /\ warnings' = Append(warnings,
           [class_name |-> Top.class_name,
            depth |-> Top.depth,
            owner |-> stack[Len(stack) - 1].class_name,
            owner_schema |-> stack[Len(stack) - 1].schema,
            at |-> stack[Len(stack) - 1].i - 1])
    /\ Return
    /\ UNCHANGED <<inputs, swagger_doc, processed_refs, pc, todo, expanded, started,
                   returned>>
    /\ UNCHANGED <<pureVars, xmlVars>>
    /\ UNCHANGED refVars

\* no 'properties' in the schema, or the loop over them has ended
return_from_schema ==
    /\ Expanding
    /\ ~DepthReached(Top.depth)
    /\ ~HasProperty(Top)
    /\ Return
    /\ UNCHANGED <<inputs, swagger_doc, processed_refs, pc, todo, warnings, expanded,
                   started, returned>>
    /\ UNCHANGED <<pureVars, xmlVars>>
    /\ UNCHANGED refVars

\* "if '$ref' in prop_def", the reference not yet processed at this depth
property_ref ==
    /\ Expanding
    /\ HasProperty(Top)
    /\ CurrentProp.def.ref # NoneText
    /\ LET ref == CurrentProp.def.ref
           ref_key == RefKey(ref, Top.depth)
           ref_class == Top.class_name \o <<"_">> \o CurrentProp.name
       IN  /\ ~AlreadyProcessed(ref_key, processed_refs)
           /\ processed_refs' = processed_refs \cup {ref_key}
           /\ Write(<<_add_class(ref_class, <<>>, <<Top.class_name>>)>>, Top.depth)
           /\ \E response \in Responses(ref) :
                  LET r == Resolve(ref, response)
                  IN  /\ Call(Frame(ref_class, r.schema, NestedDepth(Top.depth),
                                    <<_add_object_property(CurrentProp.name,
                                          Top.class_name, ref_class, IsRequired,
                                          FALSE)>>))
                      /\ expanded' = Append(expanded,
                             [ref |-> ref, depth |-> Top.depth, via |-> "property",
                              ref_class |-> ref_class, schema |-> r.schema,
                              fetch |-> r.fetched])
                      /\ Resolved(r)
    /\ UNCHANGED <<inputs, swagger_doc, pc, todo, warnings, started, returned>>
    /\ UNCHANGED <<pureVars, xmlVars>>

\* "if ref_key in self.processed_refs: continue"
property_ref_skip ==
    /\ Expanding
    /\ HasProperty(Top)
    /\ CurrentProp.def.ref # NoneText
    /\ AlreadyProcessed(RefKey(CurrentProp.def.ref, Top.depth), processed_refs)
    /\ Advance
    /\ UNCHANGED <<inputs, swagger_doc, ttl_content, processed_refs, pc, todo, warnings,
                   written_at, expanded, started, returned>>
    /\ UNCHANGED <<pureVars, xmlVars>>
    /\ UNCHANGED refVars

\* "elif prop_def.get('type') == 'object'", with 'properties'
property_object ==
    /\ Expanding
    /\ HasProperty(Top)
    /\ CurrentProp.def.ref = NoneText
    /\ CurrentProp.def.type = "object"
    /\ CurrentProp.def.hasProperties
    /\ LET nested_class == Top.class_name \o <<"_">> \o CurrentProp.name
       IN  /\ Write(<<_add_class(nested_class, CurrentProp.def.description,
                                 <<Top.class_name>>)>>, Top.depth)
           /\ Call(Frame(nested_class, CurrentProp.def, NestedDepth(Top.depth),
                         <<_add_object_property(CurrentProp.name, Top.class_name,
                                                nested_class, IsRequired, FALSE)>>))
    /\ UNCHANGED <<inputs, swagger_doc, processed_refs, pc, todo, warnings, expanded,
                   started, returned>>
    /\ UNCHANGED <<pureVars, xmlVars>>
    /\ UNCHANGED refVars

\* "elif prop_def.get('type') == 'object'", without 'properties'
property_object_bare ==
    /\ Expanding
    /\ HasProperty(Top)
    /\ CurrentProp.def.ref = NoneText
    /\ CurrentProp.def.type = "object"
    /\ ~CurrentProp.def.hasProperties
    /\ LET nested_class == Top.class_name \o <<"_">> \o CurrentProp.name
       IN  Write(<<_add_class(nested_class, CurrentProp.def.description,
                              <<Top.class_name>>),
                   _add_object_property(CurrentProp.name, Top.class_name, nested_class,
                                        IsRequired, FALSE)>>, Top.depth)
    /\ Advance
    /\ UNCHANGED <<inputs, swagger_doc, processed_refs, pc, todo, warnings, expanded,
                   started, returned>>
    /\ UNCHANGED <<pureVars, xmlVars>>
    /\ UNCHANGED refVars

IsArrayProp ==
    /\ CurrentProp.def.ref = NoneText
    /\ CurrentProp.def.type = "array"

\* array_def.get('items', {})
ItemsOf(array_def) == IF array_def.hasItems THEN array_def.items ELSE NoItems

\* _process_array_property, "if '$ref' in items", not yet processed at this depth
array_items_ref ==
    /\ Expanding
    /\ HasProperty(Top)
    /\ IsArrayProp
    /\ ItemsOf(CurrentProp.def).ref # NoneText
    /\ LET ref == ItemsOf(CurrentProp.def).ref
           ref_key == RefKey(ref, Top.depth)
           ref_class == Top.class_name \o <<"_">> \o CurrentProp.name \o <<"_", "Item">>
       IN  /\ ~AlreadyProcessed(ref_key, processed_refs)
           /\ processed_refs' = processed_refs \cup {ref_key}
           /\ Write(<<_add_class(ref_class, <<>>, <<Top.class_name>>)>>, Top.depth)
           /\ \E response \in Responses(ref) :
                  LET r == Resolve(ref, response)
                  IN  /\ Call(Frame(ref_class, r.schema, NestedDepth(Top.depth),
                                    <<_add_object_property(CurrentProp.name,
                                          Top.class_name, ref_class, IsRequired,
                                          TRUE)>>))
                      /\ expanded' = Append(expanded,
                             [ref |-> ref, depth |-> Top.depth, via |-> "items",
                              ref_class |-> ref_class, schema |-> r.schema,
                              fetch |-> r.fetched])
                      /\ Resolved(r)
    /\ UNCHANGED <<inputs, swagger_doc, pc, todo, warnings, started, returned>>
    /\ UNCHANGED <<pureVars, xmlVars>>

\* _process_array_property, "if '$ref' in items", already processed at this
\* depth: nothing is added
array_items_ref_skip ==
    /\ Expanding
    /\ HasProperty(Top)
    /\ IsArrayProp
    /\ ItemsOf(CurrentProp.def).ref # NoneText
    /\ AlreadyProcessed(RefKey(ItemsOf(CurrentProp.def).ref, Top.depth), processed_refs)
    /\ Advance
    /\ UNCHANGED <<inputs, swagger_doc, ttl_content, processed_refs, pc, todo, warnings,
                   written_at, expanded, started, returned>>
    /\ UNCHANGED <<pureVars, xmlVars>>
    /\ UNCHANGED refVars

\* _process_array_property, items without '$ref': a collection data property
array_items_data ==
    /\ Expanding
    /\ HasProperty(Top)
    /\ IsArrayProp
    /\ ItemsOf(CurrentProp.def).ref = NoneText
    /\ Write(<<_add_data_property(CurrentProp.name, Top.class_name,
                   _map_type_to_xsd(PropType(ItemsOf(CurrentProp.def)),
                                    ItemsOf(CurrentProp.def).format),
                   CurrentProp.def.description, IsRequired, TRUE, NoneText)>>,
             Top.depth)
    /\ Advance
    /\ UNCHANGED <<inputs, swagger_doc, processed_refs, pc, todo, warnings, expanded,
                   started, returned>>
    /\ UNCHANGED <<pureVars, xmlVars>>
    /\ UNCHANGED refVars

\* the else branch: a data property
property_data ==
    /\ Expanding
    /\ HasProperty(Top)
    /\ CurrentProp.def.ref = NoneText
    /\ CurrentProp.def.type \notin {"object", "array"}
    /\ Write(<<_add_data_property(CurrentProp.name, Top.class_name,
                   _map_type_to_xsd(PropType(CurrentProp.def), CurrentProp.def.format),
                   CurrentProp.def.description, IsRequired, FALSE, NoneText)>>,
             Top.depth)
    /\ Advance
    /\ UNCHANGED <<inputs, swagger_doc, processed_refs, pc, todo, warnings, expanded,
                   started, returned>>
    /\ UNCHANGED <<pureVars, xmlVars>>
    /\ UNCHANGED refVars

(***************************************************************************)
(* The pure functions, applied to drawn arguments.                         *)
(***************************************************************************)
MaxTextLen == 3

PureAlphabet == {"a", "B", " ", "/", "{", "%", "-"}
PureTexts == SeqsUpTo(PureAlphabet, MaxTextLen) \cup {NoneText}
PureTypes == {"string", "integer", "number", "boolean", "object", "array", "file", None}
PureFormats == {None, "date", "date-time", "byte", "binary", "password", "email", "uuid",
                "uri", "int32", "int64", "float", "double", "hostname"}

PureArgs ==
    {[text |-> t, type |-> "string", format |-> None] : t \in PureTexts}
    \cup {[text |-> <<>>, type |-> ty, format |-> f] : ty \in PureTypes, f \in PureFormats}

RetInit ==
    [done |-> {}, sanitize_name |-> <<>>, sanitize_name_twice |-> <<>>,
     sanitize_for_uri |-> <<>>, sanitize_for_uri_twice |-> <<>>,
     map_type_to_xsd |-> None, get_xsd_type |-> None]

Call_sanitize_name ==
    /\ "sanitize_name" \notin ret.done
    /\ ret' = [ret EXCEPT !.done = @ \cup {"sanitize_name"},
                          !.sanitize_name = _sanitize_name(arg.text),
                          !.sanitize_name_twice = _sanitize_name(_sanitize_name(arg.text))]
    /\ UNCHANGED <<arg, convVars, xmlVars, refVars>>

Call_sanitize_for_uri ==
    /\ "sanitize_for_uri" \notin ret.done
    /\ ret' = [ret EXCEPT !.done = @ \cup {"sanitize_for_uri"},
                          !.sanitize_for_uri = sanitize_for_uri(arg.text),
                          !.sanitize_for_uri_twice =
                              sanitize_for_uri(sanitize_for_uri(arg.text))]
    /\ UNCHANGED <<arg, convVars, xmlVars, refVars>>

Call_map_type_to_xsd ==
    /\ "map_type_to_xsd" \notin ret.done
    /\ ret' = [ret EXCEPT !.done = @ \cup {"map_type_to_xsd"},
                          !.map_type_to_xsd =
                              _map_type_to_xsd(PropType(arg), arg.format)]
    /\ UNCHANGED <<arg, convVars, xmlVars, refVars>>

Call_get_xsd_type ==
    /\ "get_xsd_type" \notin ret.done
    /\ ret' = [ret EXCEPT !.done = @ \cup {"get_xsd_type"},
                          !.get_xsd_type =
                              _get_xsd_type([type |-> arg.type, format |-> arg.format])]
    /\ UNCHANGED <<arg, convVars, xmlVars, refVars>>

\* no tagged converter has been made
IdleXml ==
    /\ swagger_data = <<>>
    /\ today = 0
    /\ controllers = <<>>
    /\ endpoints = <<>>
    /\ classes = {}
    /\ object_properties = {}
    /\ data_properties = {}
    /\ printed = <<>>
    /\ rdf_output = <<>>
    /\ xpc = "idle"
    /\ rdf_returned = <<>>

IdleConverter ==
    /\ inputs = <<>>
    /\ swagger_doc = <<>>
    /\ ttl_content = <<>>
    /\ processed_refs = {}
    /\ stack = <<>>
    /\ pc = "idle"
    /\ todo = <<>>
    /\ warnings = <<>>
    /\ written_at = <<>>
    /\ expanded = <<>>
    /\ started = <<>>
    /\ returned = <<>>
    /\ external_docs = <<>>
    /\ fetched = <<>>
    /\ fetch_errors = <<>>
    /\ raised = <<>>
    /\ warned = <<>>

InitPure ==
    /\ arg \in PureArgs
    /\ ret = RetInit
    /\ IdleConverter
    /\ IdleXml

NextPure ==
    \/ Call_sanitize_name
    \/ Call_sanitize_for_uri
    \/ Call_map_type_to_xsd
    \/ Call_get_xsd_type

SpecPure == InitPure /\ [][NextPure]_vars


(***************************************************************************)
(* The documents converted.  Component schemas are named A and B; their    *)
(* properties are named p and q, in this order, and take their definitions *)
(* from PropDefs.  A document has no paths, or one path with one or more   *)
(* operations.                                                             *)
(***************************************************************************)
MaxProps == 2       \* properties in the component schemas of one document

PropNames == << <<"p">>, <<"q">> >>

PropDefs ==
    {RefValue(RefTo("A")), RefValue(RefTo("B")), ArrayOfRef(RefTo("A")),
     PrimValue("integer", "int32"), ArrayOfPrim("string", None),
     ObjectValue(<<Prop(<<"p">>, RefValue(RefTo("A")))>>, {<<"p">>}), BareObject}

\* the schemas with n properties; a schema without properties has no such key
SchemasOf(n, req) ==
    IF n = 0 THEN {BareObject}
    ELSE {ObjectValue([i \in 1..n |-> Prop(PropNames[i], defs[i])], req) :
              defs \in [1..n -> PropDefs]}

ComponentSets ==
    {<<>>}
    \cup {<<[name |-> <<"A">>, schema |-> a]>> :
              a \in UNION {SchemasOf(n, {<<"p">>}) : n \in 0..Len(PropNames)}}
    \cup UNION {
           {<<[name |-> <<"A">>, schema |-> a], [name |-> <<"B">>, schema |-> b]>> :
                a \in SchemasOf(nm[1], {<<"p">>}), b \in SchemasOf(nm[2], {})} :
           nm \in {x \in (0..Len(PropNames)) \X (0..Len(PropNames)) :
                       x[1] + x[2] <= MaxProps}}

Content(schema, examples) ==
    [hasSchema |-> TRUE, schema |-> schema, hasExamples |-> examples # <<>>,
     examples |-> examples]

Operation(tags, parameters, hasRequestBody, body_schema, responses) ==
    [tags |-> tags, operationId |-> NoneText, description |-> <<>>,
     parameters |-> parameters, hasRequestBody |-> hasRequestBody,
     requestBody |-> [hasContent |-> TRUE, description |-> <<>>,
                      content |-> <<Content(body_schema, <<>>)>>],
     responses |-> responses]

Response200(schema) ==
    [status_code |-> <<"200">>, description |-> <<>>, hasContent |-> TRUE,
     content |-> <<Content(schema,
                     <<[name |-> <<"a">>, description |-> <<>>, hasValue |-> TRUE,
                        value |-> <<"a">>]>>)>>]

Response404 ==
    [status_code |-> <<"404">>, description |-> <<>>, hasContent |-> FALSE,
     content |-> <<>>]

Param(name, schema) ==
    [name |-> name, in |-> <<"query">>, required |-> TRUE, description |-> <<>>,
     hasSchema |-> TRUE, schema |-> schema]

PathSets ==
    {<<>>,
     \* POST /a with a request body that is a '$ref', under tag T
     <<[path |-> <<"/", "a">>,
        item |-> <<[method |-> "post",
                    operation |-> Operation(<< <<"T">> >>, <<>>, TRUE,
                                            RefValue(RefTo("A")),
                                            <<Response200(RefValue(RefTo("A")))>>)]>>]>>,
     \* GET /a with two parameters and an inline request body; an OPTIONS
     \* operation and an operation without tags, both passed over
     <<[path |-> <<"/", "a">>,
        item |-> <<[method |-> "get",
                    operation |-> Operation(<< <<"T">> >>,
                                     <<Param(<<"p">>, PrimValue("integer", None)),
                                       Param(<<"q">>, ObjectValue(
                                           <<Prop(<<"p">>, RefValue(RefTo("A")))>>, {}))>>,
                                     TRUE, PrimValue("string", None),
                                     <<Response404>>)],
                   [method |-> "options",
                    operation |-> Operation(<< <<"T">> >>, <<>>, FALSE, EmptySchema,
                                            <<>>)],
                   [method |-> "put",
                    operation |-> Operation(<<>>, <<>>, FALSE, EmptySchema, <<>>)]>>]>>}

Document(paths, schemas) ==
    [hasVersion |-> TRUE,
     hasInfo |-> TRUE,
     info |-> [title |-> <<"a">>, description |-> <<>>],
     hasPaths |-> TRUE,
     tags |-> IF paths = <<>> THEN <<>>
              ELSE <<[name |-> <<"T">>, description |-> <<>>]>>,
     paths |-> paths,
     hasComponents |-> schemas # <<>>,
     components |-> [hasSchemas |-> schemas # <<>>, schemas |-> schemas]]

\* the number of properties in the component schemas of a document
RECURSIVE PropCount(_)
PropCount(schemas) ==
    IF schemas = <<>> THEN 0
    ELSE Len(Head(schemas).schema.properties) + PropCount(Tail(schemas))

\* every set of component schemas without paths, and the smaller ones with
\* each of the paths
Documents ==
    {Document(<<>>, schemas) : schemas \in ComponentSets}
    \cup {Document(paths, schemas) :
              paths \in PathSets \ {<<>>},
              schemas \in {c \in ComponentSets : PropCount(c) < MaxProps}}

\* the documents given to a converter that is used for two conversions
ReusedDocuments ==
    {d \in Documents : /\ d.paths = <<>>
                       /\ Len(d.components.schemas) = 1
                       /\ Len(d.components.schemas[1].schema.properties) <= 1}

Init ==
    /\ inputs \in {<<d>> : d \in Documents}
                  \cup {<<d1, d2>> : d1 \in ReusedDocuments, d2 \in ReusedDocuments}
    /\ swagger_doc = <<>>
    /\ ttl_content = <<>>
    /\ processed_refs = {}
    /\ stack = <<>>
    /\ pc = "idle"
    /\ todo = <<>>
    /\ warnings = <<>>
    /\ written_at = <<>>
    /\ expanded = <<>>
    /\ started = <<>>
    /\ returned = <<>>
    /\ external_docs = <<>>
    /\ fetched = <<>>
    /\ fetch_errors = <<>>
    /\ raised = <<>>
    /\ warned = <<>>
    /\ arg = [text |-> <<>>, type |-> "string", format |-> None]
    /\ ret = RetInit
    /\ IdleXml

Next ==
    \/ convert_swagger
    \/ process_swagger_file
    \/ process_operation
    \/ write_stanzas
    \/ expand_schema
    \/ expand_request_ref
    \/ component_schema
    \/ component_schema_skip
    \/ return_text
    \/ depth_limit
    \/ return_from_schema
    \/ property_ref
    \/ property_ref_skip
    \/ property_object
    \/ property_object_bare
    \/ array_items_ref
    \/ array_items_ref_skip
    \/ array_items_data
    \/ property_data

Spec == Init /\ [][Next]_vars

\* every step that can be taken is eventually taken: the interpreter runs
\* the conversion to its end
FairSpec == Spec /\ WF_vars(Next)

(***************************************************************************)
(* The converter on documents with external references, and on documents   *)
(* that lack a required section.  The component schema A has one or more    *)
(* properties that refer to the schema X or Y of a document on the web, at  *)
(* one of two URLs, or of the file d.json next to the document.             *)
(***************************************************************************)
Pointer(name) == <<"#", "/", "components", "/", "schemas", "/", name>>
UrlRef(host, name) == <<"http", ":", "/", "/", host>> \o Pointer(name)
FileRef(name) == <<"d", ".", "json">> \o Pointer(name)

\* what d.json holds: a document with a component schema X
FileSchemas ==
    <<[name |-> <<"X">>,
       schema |-> ObjectValue(<<Prop(<<"p">>, PrimValue("integer", None))>>, {})]>>

ExtPropDefs ==
    {RefValue(UrlRef("h", "X")), RefValue(UrlRef("h", "Y")),
     RefValue(UrlRef("g", "X")), ArrayOfRef(UrlRef("h", "X")),
     RefValue(FileRef("X"))}

\* the names of the properties of a schema with references, in their order
ExtPropNames == << <<"p">>, <<"q">>, <<"r">> >>

ExtSchemasOf(n) ==
    {ObjectValue([i \in 1..n |-> Prop(ExtPropNames[i], defs[i])], {<<"p">>}) :
         defs \in [1..n -> ExtPropDefs]}

ExtDocuments ==
    {Document(<<>>, <<[name |-> <<"A">>, schema |-> a]>>) :
         a \in UNION {ExtSchemasOf(n) : n \in 1..MaxProps}}

\* a document without 'openapi' and 'swagger', one without 'info', one
\* without 'paths'
InvalidDocuments ==
    LET d == Document(<<>>, <<[name |-> <<"A">>, schema |-> BareObject]>>)
    IN  {[d EXCEPT !.hasVersion = FALSE], [d EXCEPT !.hasInfo = FALSE],
         [d EXCEPT !.hasPaths = FALSE]}

\* the documents of a run with two conversions
ReusedExtDocuments ==
    {d \in ExtDocuments : Len(d.components.schemas[1].schema.properties) = 1}
    \cup InvalidDocuments

InitExt ==
    /\ inputs \in {<<d>> : d \in ExtDocuments \cup InvalidDocuments}
                  \cup {<<d1, d2>> : d1 \in ReusedExtDocuments,
                                     d2 \in ReusedExtDocuments}
    /\ swagger_doc = <<>>
    /\ ttl_content = <<>>
    /\ processed_refs = {}
    /\ stack = <<>>
    /\ pc = "idle"
    /\ todo = <<>>
    /\ warnings = <<>>
    /\ written_at = <<>>
    /\ expanded = <<>>
    /\ started = <<>>
    /\ returned = <<>>
    /\ external_docs = <<>>
    /\ fetched = <<>>
    /\ fetch_errors = <<>>
    /\ raised = <<>>
    /\ warned = <<>>
    /\ arg = [text |-> <<>>, type |-> "string", format |-> None]
    /\ ret = RetInit
    /\ IdleXml

NextExt ==
    \/ input_error
    \/ convert_swagger
    \/ process_swagger_file
    \/ component_schema
    \/ component_schema_skip
    \/ return_text
    \/ return_from_schema
    \/ property_ref
    \/ property_ref_skip
    \/ array_items_ref
    \/ array_items_ref_skip
    \/ property_data

SpecExt == InitExt /\ [][NextExt]_vars

\* the interpreter runs each conversion to its end
FairSpecExt == SpecExt /\ WF_vars(NextExt)

\* the command line: every document is converted by process_swagger_file,
\* each with a converter of its own
NextFile ==
    \/ input_error
    \/ process_swagger_file
    \/ component_schema
    \/ return_text
    \/ return_from_schema
    \/ property_ref
    \/ property_ref_skip
    \/ array_items_ref
    \/ array_items_ref_skip
    \/ property_data

SpecFile == InitExt /\ [][NextFile]_vars

(***************************************************************************)
(* EnhancedSwaggerToRDFConverter.convert_to_rdf as a machine, one step for *)
(* each section of its output.  An element of the output is kept as the    *)
(* record of what its lines say.                                           *)
(***************************************************************************)
\* html.escape
EscapeChar(c) ==
    CASE c = "&" -> <<"&", "amp", ";">>
      [] c = "<" -> <<"&", "lt", ";">>
      [] c = ">" -> <<"&", "gt", ";">>
      [] c = "\"" -> <<"&", "quot", ";">>
      [] c = "'" -> <<"&", "#", "x27", ";">>
      [] OTHER -> <<c>>

sanitize_text(text) ==
    IF text = NoneText THEN <<>>
    ELSE Flatten([i \in DOMAIN text |-> EscapeChar(text[i])])

\* self.api_title, self.base_uri and self.ontology_version_uri, set by __init__
api_title(data) == Strip(data.info.title, " ")
api_version(data) == Strip(data.info.version, " ")
base_uri(data) ==
    <<"https", ":", "/", "/", "w3id", ".", "org", "/", "api", "/">>
    \o sanitize_for_uri(api_title(data)) \o <<"/">>
ontology_version_uri(data) == base_uri(data) \o api_version(data) \o <<"/">>

\* the methods extract_controllers_and_endpoints keeps
EndpointMethods == {"get", "post", "put", "delete", "patch", "options", "head"}

\* the operations of the document, in the order of the two loops over paths
OperationsOf(data) ==
    Flatten([i \in DOMAIN data.paths |->
        SelectSeq([j \in DOMAIN data.paths[i].item |->
                      [path |-> data.paths[i].path,
                       method |-> data.paths[i].item[j].method,
                       operation |-> data.paths[i].item[j].operation]],
                  LAMBDA e : e.method \in EndpointMethods)])

\* the endpoints dict after the loops
RECURSIVE EndpointsOf(_)
EndpointsOf(ops) ==
    WithValue(ops, LAMBDA v :
        IF v = <<>> THEN <<>>
        ELSE LET e == v[Len(v)]
                 endpoint_id == sanitize_for_uri(<<e.method, "-">> \o e.path)
             IN  DictPut(EndpointsOf(SubSeq(v, 1, Len(v) - 1)), endpoint_id,
                         [path |-> e.path, method |-> e.method,
                          operationId |-> IF e.operation.operationId = NoneText
                                          THEN endpoint_id
                                          ELSE e.operation.operationId,
                          tags |-> e.operation.tags,
                          hasRequestBody |-> e.operation.hasRequestBody,
                          responseIds |->
                              [k \in DOMAIN e.operation.responses |->
                                  sanitize_for_uri(
                                      endpoint_id \o <<"-", "response", "-">>
                                      \o e.operation.responses[k].status_code)]]))

\* used_tags after the loops
UsedTags(ops) == UNION {Range(ops[i].operation.tags) : i \in DOMAIN ops}

\* the orders in which a set can be iterated
Orders(S) == {o \in [1..Cardinality(S) -> S] : Range(o) = S}

\* controllers[tag]['description'] after the loop over the tags section: the
\* last definition of the tag gives it
TagDescription(data, tag) ==
    LET defs == {i \in DOMAIN data.tags : data.tags[i].name = tag}
    IN  IF defs = {} THEN <<>>
        ELSE data.tags[CHOOSE i \in defs : \A j \in defs : j <= i].description

Data == swagger_data[1]

MaxRuns == 2        \* conversions of the document in one behaviour

\* EnhancedSwaggerToRDFConverter(swagger_data): __init__
EnhancedSwaggerToRDFConverter ==
    /\ xpc \in {"idle", "done"}
    /\ swagger_data # <<>>
    /\ Len(rdf_returned) < MaxRuns
    /\ controllers' = <<>>
    /\ endpoints' = <<>>
    /\ classes' = {}
    /\ object_properties' = {}
    /\ data_properties' = {}
    /\ printed' = <<>>
    /\ rdf_output' = <<>>
    /\ xpc' = "new"
    /\ UNCHANGED <<swagger_data, today, rdf_returned>>
    /\ UNCHANGED <<pureVars, convVars, refVars>>

\* "for tag in used_tags" runs in the order the set is iterated in, which
\* depends on the hashes of the tags in the process that runs the conversion
extract_controllers_and_endpoints ==
    /\ xpc = "new"
    /\ \E order \in Orders(UsedTags(OperationsOf(Data))) :
          controllers' =
              [i \in DOMAIN order |->
                  [key |-> order[i],
                   value |-> [description |-> TagDescription(Data, order[i]),
                              endpoints |->
                                  LET eps == EndpointsOf(OperationsOf(Data))
                                      mine == SelectSeq(eps, LAMBDA e :
                                                  order[i] \in Range(e.value.tags))
                                  IN  [k \in DOMAIN mine |-> mine[k].key]]]]
    /\ endpoints' = EndpointsOf(OperationsOf(Data))
    /\ xpc' = "extracted"
    /\ UNCHANGED <<swagger_data, today, classes, object_properties, data_properties,
                   printed, rdf_output, rdf_returned>>
    /\ UNCHANGED <<pureVars, convVars, refVars>>

\* the url of the first server, "#" without one
server_url(data) ==
    IF data.hasServers /\ data.servers # <<>> THEN data.servers[1].url ELSE <<"#">>

\* generate_rdf_header: current_date is the day of datetime.now()
generate_rdf_header ==
    /\ xpc = "extracted"
    /\ rdf_output' =
          <<[kind |-> "Ontology",
             about |-> base_uri(Data),
             versionIRI |-> ontology_version_uri(Data),
             description |-> sanitize_text(Strip(Data.info.description, " ")),
             title |-> sanitize_text(api_title(Data)) \o <<" ", "API", " ", "Ontology">>,
             modified |-> today,
             seeAlso |-> sanitize_text(server_url(Data)),
             versionInfo |-> sanitize_text(api_version(Data))]>>
    /\ xpc' = "header"
    /\ UNCHANGED <<swagger_data, today, controllers, endpoints, classes,
                   object_properties, data_properties, printed, rdf_returned>>
    /\ UNCHANGED <<pureVars, convVars, refVars>>

\* the variables a section of convert_to_rdf leaves alone besides those it
\* writes
sectionFrame == <<swagger_data, today, controllers, endpoints, rdf_returned>>

\* a URI outside the ontology, and the URI of a name of the ontology
OwlAPI == <<"http://www.w3.org/2002/07/owl#", "API">>
Uri(data, name) == base_uri(data) \o name

\* an owl:Class element, an owl:ObjectProperty or owl:DatatypeProperty element
\* and an owl:NamedIndividual element, with what the claims read of them
ClassElement(about, parents) ==
    [kind |-> "Class", about |-> about, subClassOf |-> parents]
PropertyElement(kind, about, domain, range) ==
    [kind |-> kind, about |-> about, domain |-> domain, range |-> range]
IndividualElement(about, type) ==
    [kind |-> "NamedIndividual", about |-> about, type |-> type]

\* generate_annotation_properties: the annotations list
annotations ==
    <<"dc:description", "dc:title", "rdfs:seeAlso", "dc:example", "dc:required",
      "dc:format", "dc:pattern", "dc:method", "dc:path", "o2o:endpoint",
      "o2o:included", "dc:mediaType", "dc:statusCode", "dc:parameterIn",
      "dc:operationId">>

generate_annotation_properties ==
    /\ xpc = "header"
    /\ rdf_output' = rdf_output
                     \o [i \in DOMAIN annotations |->
                            [kind |-> "AnnotationProperty", about |-> <<annotations[i]>>]]
    /\ xpc' = "annotations"
    /\ UNCHANGED <<sectionFrame, classes, object_properties, data_properties, printed>>
    /\ UNCHANGED <<pureVars, convVars, refVars>>

\* generate_base_classes: the class API, which is not added to self.classes
generate_base_classes ==
    /\ xpc = "annotations"
    /\ rdf_output' = Append(rdf_output, ClassElement(OwlAPI, <<>>))
    /\ xpc' = "base"
    /\ UNCHANGED <<sectionFrame, classes, object_properties, data_properties, printed>>
    /\ UNCHANGED <<pureVars, convVars, refVars>>

generate_title_class ==
    /\ xpc = "base"
    /\ LET clean_title == sanitize_for_uri(api_title(Data))
       IN  /\ classes' = classes \cup {clean_title}
           /\ rdf_output' = Append(rdf_output,
                                   ClassElement(Uri(Data, clean_title), <<>>))
    /\ xpc' = "title"
    /\ UNCHANGED <<sectionFrame, object_properties, data_properties, printed>>
    /\ UNCHANGED <<pureVars, convVars, refVars>>

\* generate_http_method_classes: the http_methods dict, in its order (the
\* keys as the paths spell the methods; the code compares them in upper case)
http_methods ==
    <<[key |-> "get", value |-> <<"GetMethod">>],
      [key |-> "post", value |-> <<"PostMethod">>],
      [key |-> "put", value |-> <<"PutMethod">>],
      [key |-> "delete", value |-> <<"DeleteMethod">>],
      [key |-> "patch", value |-> <<"PatchMethod">>],
      [key |-> "options", value |-> <<"OptionsMethod">>],
      [key |-> "head", value |-> <<"HeadMethod">>]>>

HttpMethod == <<"HttpMethod">>

generate_http_method_classes ==
    /\ xpc = "title"
    /\ classes' = classes \cup {HttpMethod}
                  \cup {http_methods[i].value : i \in DOMAIN http_methods}
    /\ rdf_output' = rdf_output
                     \o <<ClassElement(Uri(Data, HttpMethod), <<>>)>>
                     \o [i \in DOMAIN http_methods |->
                            ClassElement(Uri(Data, http_methods[i].value),
                                         <<Uri(Data, HttpMethod)>>)]
    /\ xpc' = "methods"
    /\ UNCHANGED <<sectionFrame, object_properties, data_properties, printed>>
    /\ UNCHANGED <<pureVars, convVars, refVars>>

\* extract_path_parameters: re.findall(r'\{([^{}]+)\}', path)
RECURSIVE PathParametersFrom(_, _)
PathParametersFrom(path, i) ==
    IF i > Len(path) THEN <<>>
    ELSE IF path[i] # "{" THEN PathParametersFrom(path, i + 1)
    ELSE LET braces == {j \in (i + 1)..Len(path) : path[j] \in {"{", "}"}}
         IN  IF braces = {} THEN PathParametersFrom(path, i + 1)
             ELSE LET j == CHOOSE k \in braces : \A m \in braces : k <= m
                  IN  IF path[j] = "}" /\ j > i + 1
                      THEN <<SubSeq(path, i + 1, j - 1)>>
                           \o PathParametersFrom(path, j + 1)
                      ELSE PathParametersFrom(path, i + 1)

extract_path_parameters(path) == PathParametersFrom(path, 1)

EndpointId(e) == sanitize_for_uri(<<e.method, "-">> \o e.path)

\* self.parameters after the loops: for each operation the path parameters it
\* does not declare, then the parameters it declares
ParamEntries(e) ==
    LET endpoint_id == EndpointId(e)
        declared == e.operation.parameters
        path_params == extract_path_parameters(e.path)
        undeclared == SelectSeq(path_params, LAMBDA n :
                          ~\E k \in DOMAIN declared :
                              declared[k].name = n /\ declared[k].in = <<"path">>)
        ParamId(n) == sanitize_for_uri(endpoint_id \o <<"-", "param", "-">> \o n)
    IN  [k \in DOMAIN undeclared |->
            [key |-> ParamId(undeclared[k]),
             value |-> [name |-> undeclared[k], in |-> <<"path">>,
                        endpoint |-> endpoint_id]]]
        \o [k \in DOMAIN declared |->
               [key |-> ParamId(declared[k].name),
                value |-> [name |-> declared[k].name, in |-> declared[k].in,
                           endpoint |-> endpoint_id]]]

\* a dict after the entries are assigned to it in order
RECURSIVE DictOf(_)
DictOf(entries) ==
    WithValue(entries, LAMBDA v :
        IF v = <<>> THEN <<>>
        ELSE DictPut(DictOf(SubSeq(v, 1, Len(v) - 1)), v[Len(v)].key, v[Len(v)].value))

ParametersOf(ops) == DictOf(Flatten([i \in DOMAIN ops |-> ParamEntries(ops[i])]))

\* self.request_bodies after the loops
RequestBodyId(e) == sanitize_for_uri(EndpointId(e) \o <<"-", "request", "-", "body">>)

RequestBodiesOf(ops) ==
    LET with == SelectSeq(ops, LAMBDA e : e.operation.hasRequestBody)
    IN  DictOf([i \in DOMAIN with |->
                   [key |-> RequestBodyId(with[i]),
                    value |-> [endpoint |-> EndpointId(with[i])]]])

\* self.responses after the loops
ResponseId(e, status_code) ==
    sanitize_for_uri(EndpointId(e) \o <<"-", "response", "-">> \o status_code)

ResponsesOf(ops) ==
    DictOf(Flatten([i \in DOMAIN ops |->
              [k \in DOMAIN ops[i].operation.responses |->
                  [key |-> ResponseId(ops[i], ops[i].operation.responses[k].status_code),
                   value |-> [endpoint |-> EndpointId(ops[i]),
                              statusCode |->
                                  ops[i].operation.responses[k].status_code]]]]))

\* the elements generate_controller_classes writes for the controllers ctrls,
\* props being self.object_properties when it starts
RECURSIVE ControllerElements(_, _, _)
ControllerElements(data, ctrls, props) ==
    WithValue(ctrls, LAMBDA v :
        IF v = <<>> THEN <<>>
        ELSE LET controller_name == v[1].key
                 clean_name == sanitize_for_uri(controller_name)
                 class_uri == base_uri(data) \o clean_name
                 has_endpoint_prop == <<"has">> \o clean_name \o <<"Endpoint">>
                 class_def ==
                     [kind |-> "Class", about |-> class_uri,
                      label |-> sanitize_text(controller_name),
                      comment |-> sanitize_text(v[1].value.description),
                      subClassOf |-> base_uri(data)
                                     \o sanitize_for_uri(api_title(data))]
                 prop_def ==
                     [kind |-> "ObjectProperty",
                      about |-> base_uri(data) \o has_endpoint_prop,
                      label |-> <<"has", " ">> \o controller_name
                                \o <<" ", "endpoint">>,
                      domain |-> class_uri]
             IN  <<class_def>>
                 \o (IF has_endpoint_prop \notin props THEN <<prop_def>> ELSE <<>>)
                 \o ControllerElements(data, Tail(v), props \cup {has_endpoint_prop}))

generate_controller_classes ==
    /\ xpc = "methods"
    /\ rdf_output' = rdf_output
                     \o ControllerElements(Data, controllers, object_properties)
    /\ classes' = classes \cup {sanitize_for_uri(controllers[i].key) :
                                   i \in DOMAIN controllers}
    /\ object_properties' =
          object_properties
          \cup {<<"has">> \o sanitize_for_uri(controllers[i].key) \o <<"Endpoint">> :
                   i \in DOMAIN controllers}
    /\ xpc' = "controllers"
    /\ UNCHANGED <<swagger_data, today, controllers, endpoints, data_properties,
                   printed, rdf_returned>>
    /\ UNCHANGED <<pureVars, convVars, refVars>>

\* self.http_methods.get(method.upper())
HttpMethodClass(method) == Lookup(http_methods, method)

\* the elements generate_endpoint_classes writes for the endpoints eps, props
\* being self.object_properties when it starts
RECURSIVE EndpointElements(_, _, _)
EndpointElements(data, eps, props) ==
    WithValue(eps, LAMBDA v :
        IF v = <<>> THEN <<>>
        ELSE LET endpoint == v[1].value
                 class_name == sanitize_for_uri(endpoint.operationId)
                 class_uri == Uri(data, class_name)
                 has_request_prop == <<"has">> \o class_name \o <<"RequestBody">>
                 has_response_prop == <<"has">> \o class_name \o <<"Response">>
                 request == endpoint.hasRequestBody /\ has_request_prop \notin props
                 response == endpoint.responseIds # <<>>
                             /\ has_response_prop \notin props
                 class_def ==
                     ClassElement(class_uri,
                         <<Uri(data, HttpMethodClass(endpoint.method))>>
                         \o [k \in DOMAIN endpoint.tags |->
                                Uri(data, sanitize_for_uri(endpoint.tags[k]))]
                         \o (IF endpoint.tags = <<>>
                             THEN <<Uri(data, sanitize_for_uri(api_title(data)))>>
                             ELSE <<>>))
             IN  <<class_def>>
                 \o (IF request
                     THEN <<PropertyElement("ObjectProperty",
                                Uri(data, has_request_prop), class_uri,
                                Uri(data, HttpMethodClass(endpoint.method)))>>
                     ELSE <<>>)
                 \o (IF response
                     THEN <<PropertyElement("ObjectProperty",
                                Uri(data, has_response_prop), class_uri, OwlAPI)>>
                     ELSE <<>>)
                 \o EndpointElements(data, Tail(v),
                        props \cup (IF endpoint.hasRequestBody
                                    THEN {has_request_prop} ELSE {})
                              \cup (IF endpoint.responseIds # <<>>
                                    THEN {has_response_prop} ELSE {})))

\* the names generate_endpoint_classes adds to self.object_properties
EndpointProperties(eps) ==
    {<<"has">> \o sanitize_for_uri(eps[i].value.operationId) \o <<"RequestBody">> :
        i \in {k \in DOMAIN eps : eps[k].value.hasRequestBody}}
    \cup {<<"has">> \o sanitize_for_uri(eps[i].value.operationId) \o <<"Response">> :
             i \in {k \in DOMAIN eps : eps[k].value.responseIds # <<>>}}

generate_endpoint_classes ==
    /\ xpc = "controllers"
    /\ rdf_output' = rdf_output \o EndpointElements(Data, endpoints, object_properties)
    /\ classes' = classes \cup {sanitize_for_uri(endpoints[i].value.operationId) :
                                   i \in DOMAIN endpoints}
    /\ object_properties' = object_properties \cup EndpointProperties(endpoints)
    /\ xpc' = "endpoints"
    /\ UNCHANGED <<sectionFrame, data_properties, printed>>
    /\ UNCHANGED <<pureVars, convVars, refVars>>

\* generate_parameter_classes: the param_types dict, in its order
param_types ==
    <<[key |-> <<"path">>, value |-> <<"PathParameter">>],
      [key |-> <<"query">>, value |-> <<"QueryParameter">>],
      [key |-> <<"header">>, value |-> <<"HeaderParameter">>],
      [key |-> <<"cookie">>, value |-> <<"CookieParameter">>]>>

Parameter == <<"Parameter">>
belongsToEndpoint == <<"belongsToEndpoint">>

generate_parameter_classes ==
    /\ xpc = "endpoints"
    /\ LET parameters == ParametersOf(OperationsOf(Data))
       IN  rdf_output' =
              rdf_output
              \o <<ClassElement(Uri(Data, Parameter), <<>>)>>
              \o [i \in DOMAIN param_types |->
                     ClassElement(Uri(Data, param_types[i].value),
                                  <<Uri(Data, Parameter)>>)]
              \o [i \in DOMAIN parameters |->
                     IndividualElement(
                         Uri(Data, parameters[i].key),
                         Uri(Data, IF HasKey(param_types, parameters[i].value.in)
                                   THEN Lookup(param_types, parameters[i].value.in)
                                   ELSE Parameter))]
              \o (IF belongsToEndpoint \notin object_properties
                  THEN <<PropertyElement("ObjectProperty",
                             Uri(Data, belongsToEndpoint), Uri(Data, Parameter),
                             OwlAPI)>>
                  ELSE <<>>)
    /\ classes' = classes \cup {Parameter}
                  \cup {param_types[i].value : i \in DOMAIN param_types}
    /\ object_properties' = object_properties \cup {belongsToEndpoint}
    /\ xpc' = "parameters"
    /\ UNCHANGED <<sectionFrame, data_properties, printed>>
    /\ UNCHANGED <<pureVars, convVars, refVars>>

RequestBody == <<"RequestBody">>
hasSchema == <<"hasSchema">>
belongsToHttpMethod == <<"belongsToHttpMethod">>

\* a property element without an rdfs:domain line
NoDomain == <<>>

generate_request_body_classes ==
    /\ xpc = "parameters"
    /\ LET request_bodies == RequestBodiesOf(OperationsOf(Data))
       IN  rdf_output' =
              rdf_output
              \o <<ClassElement(Uri(Data, RequestBody), <<>>)>>
              \o [i \in DOMAIN request_bodies |->
                     IndividualElement(Uri(Data, request_bodies[i].key),
                                       Uri(Data, RequestBody))]
              \o (IF hasSchema \notin object_properties
                  THEN <<PropertyElement("ObjectProperty", Uri(Data, hasSchema),
                                         OwlAPI, OwlAPI)>>
                  ELSE <<>>)
              \o (IF belongsToHttpMethod \notin object_properties
                  THEN <<PropertyElement("ObjectProperty",
                             Uri(Data, belongsToHttpMethod), NoDomain,
                             Uri(Data, HttpMethod))>>
                  ELSE <<>>)
    /\ classes' = classes \cup {RequestBody}
    /\ object_properties' = object_properties \cup {hasSchema, belongsToHttpMethod}
    /\ xpc' = "request_bodies"
    /\ UNCHANGED <<sectionFrame, data_properties, printed>>
    /\ UNCHANGED <<pureVars, convVars, refVars>>

\* generate_response_classes: the resp_types dict, in its order
resp_types ==
    <<[key |-> <<"200">>, value |-> <<"SuccessResponse">>],
      [key |-> <<"201">>, value |-> <<"CreatedResponse">>],
      [key |-> <<"400">>, value |-> <<"BadRequestResponse">>],
      [key |-> <<"401">>, value |-> <<"UnauthorizedResponse">>],
      [key |-> <<"403">>, value |-> <<"ForbiddenResponse">>],
      [key |-> <<"404">>, value |-> <<"NotFoundResponse">>],
      [key |-> <<"500">>, value |-> <<"ServerErrorResponse">>]>>

Response == <<"Response">>

generate_response_classes ==
    /\ xpc = "request_bodies"
    /\ LET responses == ResponsesOf(OperationsOf(Data))
       IN  rdf_output' =
              rdf_output
              \o <<ClassElement(Uri(Data, Response), <<>>)>>
              \o [i \in DOMAIN resp_types |->
                     ClassElement(Uri(Data, resp_types[i].value),
                                  <<Uri(Data, Response)>>)]
              \o [i \in DOMAIN responses |->
                     IndividualElement(
                         Uri(Data, responses[i].key),
                         Uri(Data, IF HasKey(resp_types, responses[i].value.statusCode)
                                   THEN Lookup(resp_types,
                                               responses[i].value.statusCode)
                                   ELSE Response))]
    /\ classes' = classes \cup {Response}
                  \cup {resp_types[i].value : i \in DOMAIN resp_types}
    /\ xpc' = "responses"
    /\ UNCHANGED <<sectionFrame, object_properties, data_properties, printed>>
    /\ UNCHANGED <<pureVars, convVars, refVars>>

(***************************************************************************)
(* The schema sections of convert_to_rdf.  components.schemas is an        *)
(* ordered dict of schemas; a schema is a dict (a record with the field    *)
(* ref) or the boolean schema true of JSON Schema.  The schemas carry no   *)
(* '$ref', 'allOf', 'title', 'enum' or 'example' of their own, and the     *)
(* document no security section.                                           *)
(***************************************************************************)
BooleanSchema == [boolean |-> TRUE]

IsDict(schema) == "ref" \in DOMAIN schema

\* "'$ref' in schema_def" raises TypeError on a schema that is not a dict:
\* the position in the schemas a loop goes over of the first one on which it
\* raises, 0 when it raises on none
FirstRaise(schemas) ==
    LET bad == {i \in DOMAIN schemas : ~IsDict(schemas[i].schema)}
    IN  IF bad = {} THEN 0 ELSE CHOOSE i \in bad : \A j \in bad : i <= j

\* the schemas the loop gets through
Passed(schemas) ==
    IF FirstRaise(schemas) = 0 THEN schemas
    ELSE SubSeq(schemas, 1, FirstRaise(schemas) - 1)

\* the line the except clause of a section prints
Raised(section, schemas) ==
    IF FirstRaise(schemas) # 0 THEN <<section>> ELSE <<>>

\* ref.split('/')[-1]
LastSegment(ref) == LET parts == Split(ref, "/") IN parts[Len(parts)]

\* self.request_body_schemas[schema_name] followed by
\* self.response_schemas[schema_name]: the endpoints whose request body, and
\* those one of whose responses, has a content schema that is a '$ref' ending
\* in schema_name
RefersTo(content, schema_name) ==
    \E k \in DOMAIN content :
        /\ content[k].hasSchema
        /\ content[k].schema.ref # NoneText
        /\ LastSegment(content[k].schema.ref) = schema_name

SchemaUsers(ops, schema_name) ==
    SelectSeq(ops, LAMBDA e :
        /\ e.operation.hasRequestBody
        /\ e.operation.requestBody.hasContent
        /\ RefersTo(e.operation.requestBody.content, schema_name))
    \o SelectSeq(ops, LAMBDA e :
           \E r \in DOMAIN e.operation.responses :
               /\ e.operation.responses[r].hasContent
               /\ RefersTo(e.operation.responses[r].content, schema_name))

\* a list without the repetitions of its entries
RECURSIVE Distinct(_)
Distinct(s) ==
    IF s = <<>> THEN <<>>
    ELSE LET front == Distinct(SubSeq(s, 1, Len(s) - 1))
         IN  IF s[Len(s)] \in Range(front) THEN front ELSE Append(front, s[Len(s)])

\* subclass_uris: the controller of the first tag of each endpoint that uses
\* the schema, the title class when there is none
subclass_uris(data, schema_name) ==
    LET eps == EndpointsOf(OperationsOf(data))
        users == SelectSeq(SchemaUsers(OperationsOf(data), schema_name),
                           LAMBDA e : /\ HasKey(eps, EndpointId(e))
                                      /\ Lookup(eps, EndpointId(e)).tags # <<>>)
        uris == Distinct([k \in DOMAIN users |->
                    Uri(data, sanitize_for_uri(
                                  Lookup(eps, EndpointId(users[k])).tags[1]))])
    IN  IF uris = <<>> THEN <<Uri(data, sanitize_for_uri(api_title(data)))>>
        ELSE uris

\* generate_schema_classes: a class for each schema; when the loop raises,
\* the except clause prints the error and the method returns ""
SchemaClassElements(data) ==
    IF FirstRaise(data.schemas) # 0 THEN <<>>
    ELSE [i \in DOMAIN data.schemas |->
             ClassElement(Uri(data, data.schemas[i].name),
                          subclass_uris(data, data.schemas[i].name))]

generate_schema_classes ==
    /\ xpc = "responses"
    /\ rdf_output' = rdf_output \o SchemaClassElements(Data)
    /\ printed' = printed \o Raised("generate_schema_classes", Data.schemas)
    /\ xpc' = "schema_classes"
    /\ UNCHANGED <<sectionFrame, classes, object_properties, data_properties>>
    /\ UNCHANGED <<pureVars, convVars, refVars>>

_is_object_property(prop_def) ==
    \/ prop_def.ref # NoneText
    \/ /\ prop_def.type = "array"
       /\ prop_def.hasItems
       /\ (prop_def.items.ref # NoneText \/ prop_def.items.type = "object")

\* _extract_range_class: None when the property names no class
_extract_range_class(prop_def) ==
    IF prop_def.ref # NoneText THEN LastSegment(prop_def.ref)
    ELSE IF prop_def.type = "array" /\ prop_def.hasItems
            /\ prop_def.items.ref # NoneText
    THEN LastSegment(prop_def.items.ref)
    ELSE NoneText

\* the properties of the schemas, in the order of the two nested loops
PropertiesOf(schemas) ==
    Flatten([i \in DOMAIN schemas |->
        [k \in DOMAIN schemas[i].schema.properties |->
            [schema_name |-> schemas[i].name,
             prop_name |-> schemas[i].schema.properties[k].name,
             prop_def |-> schemas[i].schema.properties[k].def,
             is_required |-> schemas[i].schema.properties[k].name
                             \in schemas[i].schema.required]]])

\* str.endswith
endswith(s, suffix) ==
    Len(suffix) <= Len(s) /\ SubSeq(s, Len(s) - Len(suffix) + 1, Len(s)) = suffix

\* "Skip utility schemas"
IsUtility(schema_name) ==
    endswith(schema_name, <<"Filter">>) \/ endswith(schema_name, <<"Wrapper">>)

\* "Skip metadata properties"
MetadataProperties == {<<"@id">>, <<"@type">>, <<"@context">>}

\* what a loop of a section has written and the names it has added to its set
Written(out, names) == [out |-> out, names |-> names, raised |-> FALSE]

\* the first loop of generate_object_properties over the properties props,
\* names being self.object_properties when it starts
RECURSIVE SchemaObjectProperties(_, _, _)
SchemaObjectProperties(data, props, names) ==
    WithValue(props, LAMBDA v :
        IF v = <<>> THEN Written(<<>>, names)
        ELSE LET p == v[1]
                 range_class == _extract_range_class(p.prop_def)
                 inverse_name == <<"belongsTo">> \o p.schema_name
                 is_collection == p.prop_def.type = "array"
                 inverse == /\ is_collection
                            /\ range_class # NoneText
                            /\ inverse_name \notin names \cup {p.prop_name}
                 property_def ==
                     PropertyElement("ObjectProperty", Uri(data, p.prop_name),
                         Uri(data, p.schema_name),
                         IF range_class # NoneText THEN Uri(data, range_class)
                         ELSE <<>>)
                 inverse_def ==
                     PropertyElement("ObjectProperty", Uri(data, inverse_name),
                         Uri(data, range_class), Uri(data, p.schema_name))
                 skipped ==
                     \/ p.prop_name \in MetadataProperties \cup {<<"id">>}
                     \/ ~_is_object_property(p.prop_def)
                     \/ p.prop_name \in names
                 rest == SchemaObjectProperties(data, Tail(v),
                             names
                             \cup (IF skipped THEN {} ELSE {p.prop_name})
                             \cup (IF ~skipped /\ inverse THEN {inverse_name} ELSE {}))
             IN  Written((IF skipped THEN <<>> ELSE <<property_def>>)
                         \o (IF ~skipped /\ inverse THEN <<inverse_def>> ELSE <<>>)
                         \o rest.out,
                         rest.names))

\* re.compile(r'^/([^/]+)(?:/\{[^}]+\})?$').match(path): group 1, None
\* without a match
IsBraced(t) ==
    /\ Len(t) >= 4
    /\ t[1] = "/" /\ t[2] = "{" /\ t[Len(t)] = "}"
    /\ \A i \in 3..(Len(t) - 1) : t[i] # "}"

FirstSegment(path) ==
    LET rest == Tail(path)
        slashes == {i \in DOMAIN rest : rest[i] = "/"}
        k == IF slashes = {} THEN Len(rest) + 1
             ELSE CHOOSE i \in slashes : \A j \in slashes : i <= j
    IN  [group |-> SubSeq(rest, 1, k - 1), tail |-> SubSeq(rest, k, Len(rest))]

resource_name_pattern(path) ==
    IF path = <<>> \/ Head(path) # "/" THEN NoneText
    ELSE LET m == FirstSegment(path)
         IN  IF m.group # <<>> /\ (m.tail = <<>> \/ IsBraced(m.tail)) THEN m.group
             ELSE NoneText

\* re.compile(r'^/([^/]+)/\{[^}]+\}/([^/]+)$').match(path): groups 1 and 2,
\* None without a match
sub_resource_pattern(path) ==
    IF path = <<>> \/ Head(path) # "/" THEN NoneText
    ELSE LET m == FirstSegment(path)
             t == m.tail
             closes == {i \in DOMAIN t : t[i] = "}"}
             j == IF closes = {} THEN 0
                  ELSE CHOOSE i \in closes : \A k \in closes : i <= k
             child == SubSeq(t, j + 2, Len(t))
         IN  IF /\ m.group # <<>>
                /\ Len(t) >= 2 /\ t[1] = "/" /\ t[2] = "{"
                /\ j > 3
                /\ Len(t) >= j + 2 /\ t[j + 1] = "/"
                /\ \A i \in DOMAIN child : child[i] # "/"
             THEN <<m.group, child>>
             ELSE NoneText

\* str.upper() of a character, and str.title(): the first letter of each run
\* of letters in upper case, the others in lower case
UpperChar(c) ==
    CASE c = "a" -> "A"
      [] c = "b" -> "B"
      [] c = "p" -> "P"
      [] c = "q" -> "Q"
      [] c = "t" -> "T"
      [] c = "u" -> "U"
      [] OTHER   -> c

IsLetter(c) == c \in {"a", "b", "p", "q", "t", "u", "A", "B", "P", "Q", "T", "U"}

Title(s) ==
    [i \in DOMAIN s |->
        IF i = 1 \/ ~IsLetter(s[i - 1]) THEN UpperChar(s[i]) ELSE LowerChar(s[i])]

\* the class name given to a resource: the parts between "-", or between "_"
\* in a resource without "-", each in title case and joined (a resource with
\* neither is one part)
ResourceClass(resource) ==
    LET parts == Split(resource, IF "-" \in Range(resource) THEN "-" ELSE "_")
    IN  Flatten([k \in DOMAIN parts |-> Title(parts[k])])

\* resource_to_class after the first pass over the paths
resource_to_class(paths) ==
    LET matches == [k \in DOMAIN paths |-> resource_name_pattern(paths[k].path)]
        resources == SelectSeq(matches, LAMBDA m : m # NoneText)
    IN  DictOf([k \in DOMAIN resources |->
                   [key |-> resources[k], value |-> ResourceClass(resources[k])]])

\* the parent and child classes the second pass finds, in the order of the
\* paths
Relationships(paths) ==
    LET classes_of == resource_to_class(paths)
        matches == [k \in DOMAIN paths |-> sub_resource_pattern(paths[k].path)]
        nested == SelectSeq(matches, LAMBDA m :
                      /\ m # NoneText
                      /\ HasKey(classes_of, m[1])
                      /\ HasKey(classes_of, m[2]))
    IN  [k \in DOMAIN nested |->
            [parent_class |-> Lookup(classes_of, nested[k][1]),
             child_class |-> Lookup(classes_of, nested[k][2])]]

\* the second pass of generate_object_properties over the relationships rels
RECURSIVE PathObjectProperties(_, _, _)
PathObjectProperties(data, rels, names) ==
    WithValue(rels, LAMBDA v :
        IF v = <<>> THEN Written(<<>>, names)
        ELSE LET has_prop == <<"has">> \o v[1].child_class
                 is_prop == <<"is">> \o v[1].child_class \o <<"Of">>
                            \o v[1].parent_class
                 rest == PathObjectProperties(data, Tail(v),
                             names \cup {has_prop, is_prop})
             IN  Written(
                     (IF has_prop \notin names
                      THEN <<PropertyElement("ObjectProperty", Uri(data, has_prop),
                                 Uri(data, v[1].parent_class),
                                 Uri(data, v[1].child_class))>>
                      ELSE <<>>)
                     \o (IF is_prop \notin names \cup {has_prop}
                         THEN <<PropertyElement("ObjectProperty", Uri(data, is_prop),
                                    Uri(data, v[1].child_class),
                                    Uri(data, v[1].parent_class))>>
                         ELSE <<>>)
                     \o rest.out,
                     rest.names))

\* generate_object_properties: when a loop raises, the except clause prints
\* the error and the method returns what it has written
ObjectPropertiesWritten(data, names) ==
    WithValue(SelectSeq(data.schemas, LAMBDA s : ~IsUtility(s.name)), LAMBDA considered :
        WithValue(SchemaObjectProperties(data, PropertiesOf(Passed(considered)), names),
                  LAMBDA first :
            IF FirstRaise(considered) # 0 THEN [first EXCEPT !.raised = TRUE]
            ELSE WithValue(PathObjectProperties(data, Relationships(data.paths),
                                                first.names),
                           LAMBDA second :
                     Written(first.out \o second.out, second.names))))

generate_object_properties ==
    /\ xpc = "schema_classes"
    /\ \E written \in {ObjectPropertiesWritten(Data, object_properties)} :
          /\ rdf_output' = rdf_output \o written.out
          /\ object_properties' = written.names
          /\ printed' = printed
                        \o (IF written.raised THEN <<"generate_object_properties">>
                            ELSE <<>>)
    /\ xpc' = "object_props"
    /\ UNCHANGED <<sectionFrame, classes, data_properties>>
    /\ UNCHANGED <<pureVars, convVars, refVars>>

\* the loop of generate_data_properties over the properties props, names
\* being self.data_properties when it starts
RECURSIVE SchemaDataProperties(_, _, _)
SchemaDataProperties(data, props, names) ==
    WithValue(props, LAMBDA v :
        IF v = <<>> THEN Written(<<>>, names)
        ELSE LET p == v[1]
                 skipped ==
                     \/ p.prop_name \in MetadataProperties \cup {<<"id">>}
                     \/ _is_object_property(p.prop_def)
                     \/ p.prop_name \in names
                 rest == SchemaDataProperties(data, Tail(v),
                             names \cup (IF skipped THEN {} ELSE {p.prop_name}))
             IN  Written((IF skipped THEN <<>>
                          ELSE <<[kind |-> "DatatypeProperty",
                                  about |-> Uri(data, p.prop_name),
                                  domain |-> Uri(data, p.schema_name),
                                  range |-> <<"xsd:", _get_xsd_type(p.prop_def)>>,
                                  required |-> p.is_required]>>)
                         \o rest.out,
                         rest.names))

\* generate_data_properties: when the loop raises, the except clause prints
\* the error and the method returns what it has written
generate_data_properties ==
    /\ xpc = "object_props"
    /\ \E written \in {SchemaDataProperties(Data, PropertiesOf(Passed(Data.schemas)),
                                             data_properties)} :
          /\ rdf_output' = rdf_output \o written.out
          /\ data_properties' = written.names
    /\ printed' = printed \o Raised("generate_data_properties", Data.schemas)
    /\ xpc' = "data_props"
    /\ UNCHANGED <<sectionFrame, classes, object_properties>>
    /\ UNCHANGED <<pureVars, convVars, refVars>>

\* generate_individuals: "'enum' in schema_def" raises on a schema that is
\* not a dict; the schemas have no enum and no example, and the document no
\* security schemes, so that nothing is written
generate_individuals ==
    /\ xpc = "data_props"
    /\ printed' = printed \o Raised("generate_individuals", Data.schemas)
    /\ xpc' = "individuals"
    /\ UNCHANGED <<sectionFrame, classes, object_properties, data_properties,
                   rdf_output>>
    /\ UNCHANGED <<pureVars, convVars, refVars>>

\* convert_to_rdf closes the document and returns it
convert_to_rdf ==
    /\ xpc = "individuals"
    /\ rdf_returned' = Append(rdf_returned, rdf_output)
    /\ xpc' = "done"
    /\ UNCHANGED <<swagger_data, today, controllers, endpoints, classes,
                   object_properties, data_properties, printed, rdf_output>>
    /\ UNCHANGED <<pureVars, convVars, refVars>>

\* the day changes
LastDay == 1

midnight ==
    /\ today < LastDay
    /\ today' = today + 1
    /\ UNCHANGED <<swagger_data, controllers, endpoints, classes, object_properties,
                   data_properties, printed, rdf_output, xpc, rdf_returned>>
    /\ UNCHANGED <<pureVars, convVars, refVars>>

\* the documents given to the tagged converter: one path, with operations
\* under the tags T and U
TaggedOperation(method, tags) ==
    [method |-> method, operation |-> Operation(tags, <<>>, FALSE, EmptySchema, <<>>)]

TagLists == {<<>>, << <<"T">> >>, << <<"U">> >>, << <<"T">>, <<"U">> >>,
             << <<"U">>, <<"T">> >>}

XmlDocuments ==
    {[info |-> [title |-> title, description |-> <<>>, version |-> <<"1">>],
      tags |-> tagdefs,
      hasServers |-> FALSE,
      servers |-> <<>>,
      schemas |-> <<>>,
      paths |-> <<[path |-> <<"/", "a">>,
                   item |-> <<TaggedOperation("get", t1), TaggedOperation("post", t2),
                              TaggedOperation("trace", << <<"T">> >>)>>]>>] :
        title \in {<<"a">>, <<"A", " ", "b">>},
        tagdefs \in {<<>>, <<[name |-> <<"T">>, description |-> <<"a", "&", "b">>]>>},
        t1 \in TagLists, t2 \in TagLists}

InitXml ==
    /\ swagger_data \in {<<d>> : d \in XmlDocuments}
    /\ today = 0
    /\ controllers = <<>>
    /\ endpoints = <<>>
    /\ classes = {}
    /\ object_properties = {}
    /\ data_properties = {}
    /\ printed = <<>>
    /\ rdf_output = <<>>
    /\ xpc = "idle"
    /\ rdf_returned = <<>>
    /\ IdleConverter
    /\ arg = [text |-> <<>>, type |-> "string", format |-> None]
    /\ ret = RetInit

\* the documents given to the section generators: the paths /a, /b,
\* /a/{p}/b, /a/{p} (with a query parameter named p) and /a/p, and component
\* schemas A and B
SectionPath(path, method, operation) ==
    [path |-> path, item |-> <<[method |-> method, operation |-> operation]>>]

SectionPathSets ==
    LET a == <<"/", "a">>
        b == <<"/", "b">>
        nested == <<"/", "a", "/", "{", "p", "}", "/", "b">>
        plain == Operation(<< <<"T">> >>, <<>>, FALSE, EmptySchema, <<>>)
        untagged == Operation(<<>>, <<>>, FALSE, EmptySchema, <<Response404>>)
        posting == Operation(<< <<"T">> >>, <<>>, TRUE, RefValue(RefTo("A")),
                             <<Response200(RefValue(RefTo("A")))>>)
        braced == <<"/", "a", "/", "{", "p", "}">>
        segment == <<"/", "a", "/", "p">>
        querying == Operation(<< <<"T">> >>, <<Param(<<"p">>, PrimValue("string", None))>>,
                              FALSE, EmptySchema, <<>>)
    IN  {<<SectionPath(braced, "get", querying), SectionPath(segment, "get", plain)>>,
         <<SectionPath(a, "get", plain)>>,
         <<SectionPath(a, "post", posting)>>,
         <<SectionPath(a, "get", plain), SectionPath(nested, "get", untagged)>>,
         <<SectionPath(a, "get", plain), SectionPath(b, "get", plain),
           SectionPath(nested, "get", plain)>>,
         <<SectionPath(nested, "post", posting), SectionPath(b, "get", untagged),
           SectionPath(a, "get", plain)>>}

SectionSchemaSets ==
    LET Named(n, s) == [name |-> <<n>>, schema |-> s]
        holder == ObjectValue(<<Prop(<<"p">>, PrimValue("integer", None)),
                                Prop(<<"q">>, ArrayOfRef(RefTo("B")))>>, {<<"p">>})
        plain == ObjectValue(<<Prop(<<"p">>, PrimValue("string", None))>>, {})
        linked == ObjectValue(<<Prop(<<"q">>, RefValue(RefTo("A")))>>, {})
    IN  {<<>>,
         <<Named("A", plain)>>,
         <<Named("A", holder), Named("B", plain)>>,
         <<Named("B", linked), Named("A", plain)>>,
         <<Named("A", ObjectValue(<<Prop(<<"p">>, ArrayOfObject)>>, {}))>>,
         <<Named("A", BooleanSchema)>>,
         <<Named("A", holder), Named("B", BooleanSchema)>>,
         <<Named("B", BooleanSchema), Named("A", plain)>>}

SectionDocuments ==
    {[info |-> [title |-> <<"a">>, description |-> <<>>, version |-> <<"1">>],
      tags |-> <<>>,
      hasServers |-> FALSE,
      servers |-> <<>>,
      paths |-> paths,
      schemas |-> schemas] :
        paths \in SectionPathSets, schemas \in SectionSchemaSets}

InitSections ==
    /\ swagger_data \in {<<d>> : d \in SectionDocuments}
    /\ today \in 0..LastDay
    /\ controllers = <<>>
    /\ endpoints = <<>>
    /\ classes = {}
    /\ object_properties = {}
    /\ data_properties = {}
    /\ printed = <<>>
    /\ rdf_output = <<>>
    /\ xpc = "idle"
    /\ rdf_returned = <<>>
    /\ IdleConverter
    /\ arg = [text |-> <<>>, type |-> "string", format |-> None]
    /\ ret = RetInit

NextXml ==
    \/ EnhancedSwaggerToRDFConverter
    \/ extract_controllers_and_endpoints
    \/ generate_rdf_header
    \/ generate_annotation_properties
    \/ generate_base_classes
    \/ generate_title_class
    \/ generate_http_method_classes
    \/ generate_controller_classes
    \/ generate_endpoint_classes
    \/ generate_parameter_classes
    \/ generate_request_body_classes
    \/ generate_response_classes
    \/ generate_schema_classes
    \/ generate_object_properties
    \/ generate_data_properties
    \/ generate_individuals
    \/ convert_to_rdf
    \/ midnight

SpecXml == InitXml /\ [][NextXml]_vars

SpecSections == InitSections /\ [][NextXml]_vars

(***************************************************************************)
(* Claims about the pure functions (checked under SpecPure).               *)
(***************************************************************************)

\* C8: both sanitizers are total and idempotent: for every text s, the empty
\* text and None included, sanitize(s) is a non-empty identifier and
\* sanitize(sanitize(s)) = sanitize(s); claimed of _sanitize_name and of
\* sanitize_for_uri.
C8_SanitizersNonEmptyIdempotent ==
    /\ "sanitize_name" \in ret.done =>
           /\ ret.sanitize_name # <<>>
           /\ ret.sanitize_name_twice = ret.sanitize_name
    /\ "sanitize_for_uri" \in ret.done =>
           /\ ret.sanitize_for_uri # <<>>
           /\ ret.sanitize_for_uri_twice = ret.sanitize_for_uri

\* The (type, format) pairs the mapping table lists
ListedPair(ty, f) == ty \in DOMAIN type_mapping /\ f \in DOMAIN type_mapping[ty]

\* C9 as stated: mapType returns the table's datatype for every listed
\* (type, format) pair and the generic string datatype for every pair that is
\* not listed, a known type with an unlisted format included.
C9_UnlistedPairsMapToString ==
    "map_type_to_xsd" \in ret.done =>
        IF ListedPair(PropType(arg), arg.format)
        THEN ret.map_type_to_xsd = type_mapping[PropType(arg)][arg.format]
        ELSE ret.map_type_to_xsd = "xsd:string"

\* C9 as amended: mapType returns the table's datatype for every listed pair;
\* for a known type with an unlisted format it returns that type's plain
\* (format-less) datatype; for an unknown type it returns the generic string
\* datatype.
C9_UnlistedFormatMapsToPlainType ==
    "map_type_to_xsd" \in ret.done =>
        IF ListedPair(PropType(arg), arg.format)
        THEN ret.map_type_to_xsd = type_mapping[PropType(arg)][arg.format]
        ELSE IF PropType(arg) \in DOMAIN type_mapping
        THEN ret.map_type_to_xsd = type_mapping[PropType(arg)][None]
        ELSE ret.map_type_to_xsd = "xsd:string"

\* C9's case: a known type with an unlisted format has been mapped, and not
\* to the string datatype
C9_Witness ==
    /\ "map_type_to_xsd" \in ret.done
    /\ arg.type = "integer"
    /\ arg.format = "hostname"
    /\ ret.map_type_to_xsd = "xsd:integer"

\* C10: the type mapping of the compact converter and that of the tagged
\* converter are the same function: for every (type, format) pair both name
\* the same XSD datatype.
C10_TypeMappersAgree ==
    {"map_type_to_xsd", "get_xsd_type"} \subseteq ret.done =>
        CompactDatatype(ret.map_type_to_xsd) = TaggedDatatype(ret.get_xsd_type)


(***************************************************************************)
(* Claims about the compact converter (checked under Spec and FairSpec).   *)
(***************************************************************************)

\* the names of the component schemas that a schema value refers to, by a
\* '$ref' property, by the '$ref' items of an array or inside an inline object
RECURSIVE RefsOf(_)
RefsOf(schema) ==
    (IF schema.ref # NoneText THEN {schema.ref} ELSE {})
    \cup (IF schema.hasItems /\ schema.items.ref # NoneText THEN {schema.items.ref}
          ELSE {})
    \cup UNION {RefsOf(schema.properties[i].def) : i \in DOMAIN schema.properties}

\* the document has a component schema that refers to itself, directly or
\* through another component schema
SelfReferencing(doc) ==
    LET schemas == ComponentSchemas(doc)
        refers(i, j) == (<<"#", "/", "components", "/", "schemas", "/">>
                         \o schemas[j].name) \in RefsOf(schemas[i].schema)
    IN  \E i \in DOMAIN schemas :
            \/ refers(i, i)
            \/ \E j \in DOMAIN schemas : refers(i, j) /\ refers(j, i)

\* the conversion under way is the first one of its converter
FirstConversion == Len(started) = 1

C2_DepthBounded ==
    /\ \A i \in DOMAIN stack : stack[i].depth <= max_recursion_depth
    /\ \A i \in 2..Len(stack) : stack[i].depth = stack[i - 1].depth + 1
    /\ \A k \in DOMAIN written_at : written_at[k] < max_recursion_depth

\* C2's case: a call at the maximum depth is running, and its caller, one
\* level below the maximum, has written to the output
C2_Witness ==
    /\ stack # <<>>
    /\ Top.depth = max_recursion_depth
    /\ \E k \in DOMAIN written_at : written_at[k] = max_recursion_depth - 1

\* what C3 says of one warning w: the class of the truncated branch and the
\* object property from its owner to it are in the output
BranchKept(w) ==
    /\ \E k \in DOMAIN ttl_content :
          /\ ttl_content[k].kind = "Class"
          /\ ttl_content[k].id = _sanitize_name(w.class_name)
    /\ \E k \in DOMAIN ttl_content :
          /\ ttl_content[k].kind = "ObjectProperty"
          /\ ttl_content[k].domain = _sanitize_name(w.owner)
          /\ _sanitize_name(w.class_name) \in {ttl_content[k].range,
                                               ttl_content[k].itemType}

\* the primitive properties that follow the truncated one in its owner have
\* their datatype property, and every component schema has its class
RestProcessed(w) ==
    /\ \A j \in DOMAIN w.owner_schema.properties :
          LET prop == w.owner_schema.properties[j]
          IN  (j > w.at /\ prop.def.ref = NoneText
                        /\ prop.def.type \notin {"object", "array"}) =>
                  \E k \in DOMAIN ttl_content :
                      /\ ttl_content[k].kind = "DatatypeProperty"
                      /\ ttl_content[k].id = _sanitize_name(prop.name)
                      /\ ttl_content[k].domain = _sanitize_name(w.owner)
    /\ \A i \in DOMAIN ComponentSchemas(Doc) :
          \E k \in DOMAIN ttl_content :
              /\ ttl_content[k].kind = "Class"
              /\ ttl_content[k].id = _sanitize_name(ComponentSchemas(Doc)[i].name)

\* C3: at the maximum depth only the branch is cut: the step that issues the
\* warning returns from that one call and leaves the rest of the work as it
\* was; the class of the truncated branch and the object property linking its
\* owner to it are in the output; and when the conversion returns, the
\* properties after the truncated one and the remaining schemas have been
\* processed.
C3_OnlyBranchCut ==
    /\ [][Len(warnings') > Len(warnings) =>
             /\ stack' = SubSeq(stack, 1, Len(stack) - 1)
             /\ todo' = todo
             /\ pc' = "running"]_vars
    /\ [](\A k \in DOMAIN warnings :
             /\ BranchKept(warnings[k])
             /\ pc = "done" => RestProcessed(warnings[k]))

\* C3's case: the conversion has returned after a warning whose owner had a
\* primitive property after the truncated one
C3_Witness ==
    /\ pc = "done"
    /\ \E k \in DOMAIN warnings :
          \E j \in DOMAIN warnings[k].owner_schema.properties :
              /\ j > warnings[k].at
              /\ warnings[k].owner_schema.properties[j].def.type = "integer"
    /\ Len(ComponentSchemas(Doc)) = 1

Guarded(e) == e.via \in {"property", "items"}

NodeKinds == {"Class", "ObjectProperty", "DatatypeProperty"}

\* C5: in the output of a conversion no two emitted nodes share an
\* identifier (stated of the first conversion of a converter, whose output
\* holds nothing but that conversion's nodes).
C5_NoSharedIdentifier ==
    Len(started) <= 1 =>
        \A i, j \in DOMAIN ttl_content :
            (/\ ttl_content[i].kind \in NodeKinds
             /\ ttl_content[j].kind \in NodeKinds
             /\ ttl_content[i].id = ttl_content[j].id) => i = j

\* C7: each call of convert_swagger starts with an empty dedup set and an
\* empty output document.
C7_StartsEmpty ==
    \A i \in DOMAIN started :
        /\ started[i].processed_refs = {}
        /\ started[i].ttl_content = <<>>


(***************************************************************************)
(* Claims about the tagged converter (checked under SpecXml).              *)
(***************************************************************************)

\* C6: two conversions of one document produce identical output: nothing in
\* the output depends on set iteration order, on the run, or on anything
\* other than the input document.  (Every conversion of a behaviour converts
\* the same document, each with a converter of its own.)
C6_SameDocumentSameOutput ==
    \A i, j \in DOMAIN rdf_returned : rdf_returned[i] = rdf_returned[j]


(***************************************************************************)
(* C11.  A conversion of a document that lacks the API-version field, the  *)
(* 'info' section or the 'paths' section fails with an input error before  *)
(* any graph building starts: no converter ever holds such a document, has *)
(* written text for it or returns text for it.                             *)
(* process_swagger_file validates; convert_swagger, which the HTTP handler *)
(* calls on its converter, does not.                                       *)
(***************************************************************************)
C11_InvalidDocumentRejected ==
    swagger_doc # <<>> => Invalid(Doc) = NoneText


(***************************************************************************)
(* C12.  When the request for an external reference fails (requests.get or *)
(* the JSON parse raises), the resolver returns the empty schema and one   *)
(* error line is printed; no exception reaches the caller: the conversion  *)
(* runs to its end and returns.  The text then holds the class made for    *)
(* the reference, as a subclass of the referencing class, and no property  *)
(* with that class as its domain.                                          *)
(***************************************************************************)
FailedFetch(e) == e.fetch # <<>> /\ ~e.fetch[1].ok

EmittedBare(e) ==
    /\ \E k \in DOMAIN ttl_content :
           /\ ttl_content[k].kind = "Class"
           /\ ttl_content[k].id = _sanitize_name(e.ref_class)
           /\ ttl_content[k].supers # <<>>
    /\ \A k \in DOMAIN ttl_content :
           ttl_content[k].kind \in {"ObjectProperty", "DatatypeProperty"}
               => ttl_content[k].domain # _sanitize_name(e.ref_class)

C12_FailedFetchIsSoft ==
    /\ <>(inputs = <<>> /\ pc # "running")
    /\ [](/\ \A i \in DOMAIN expanded :
                FailedFetch(expanded[i]) => expanded[i].schema = EmptySchema
          /\ Len(fetch_errors)
                = Cardinality({i \in DOMAIN fetched : ~fetched[i].ok})
          /\ pc = "done" =>
                /\ Len(returned) = Len(started)
                /\ \A i \in DOMAIN expanded :
                       FailedFetch(expanded[i]) => EmittedBare(expanded[i]))

\* C12's case: a conversion has returned after a request of it failed
C12_Witness ==
    /\ pc = "done"
    /\ \E i \in DOMAIN expanded : FailedFetch(expanded[i])
    /\ fetch_errors # <<>>


(***************************************************************************)
(* C13.  The cache of external documents is read through by base URL:      *)
(* within one conversion, once the request for a base has succeeded, no    *)
(* later request is made for that base, and every later reference with     *)
(* that base is answered, without a request, by the walk of its pointer    *)
(* through the cached document.                                            *)
(***************************************************************************)
FetchedOk(e) == e.fetch # <<>> /\ e.fetch[1].ok

C13_FetchedOnce ==
    /\ \A i, j \in DOMAIN fetched :
           (i < j /\ fetched[i].ok) => fetched[j].base_url # fetched[i].base_url
    /\ \A i, j \in DOMAIN expanded :
           (/\ i < j
            /\ FetchedOk(expanded[i])
            /\ IsUrl(expanded[j].ref)
            /\ BaseOf(expanded[j].ref) = expanded[i].fetch[1].base_url)
           => /\ expanded[j].fetch = <<>>
              /\ Cached(external_docs, BaseOf(expanded[j].ref))
              /\ expanded[j].schema
                    = WalkPointer(Lookup(external_docs, BaseOf(expanded[j].ref)),
                                  PointerOf(expanded[j].ref))

\* C13's case: a second reference to a base that was fetched has been resolved
C13_Witness ==
    \E i, j \in DOMAIN expanded :
        /\ i < j
        /\ FetchedOk(expanded[i])
        /\ IsUrl(expanded[j].ref)
        /\ BaseOf(expanded[j].ref) = expanded[i].fetch[1].base_url
        /\ expanded[j].ref # expanded[i].ref


(***************************************************************************)
(* C14.  In a conversion started through process_swagger_file (every       *)
(* conversion of SpecFile), a '$ref' that is a relative file path (no URL  *)
(* scheme, no leading '#') is resolved by reading that file next to the    *)
(* document: the resolver returns the schema at the reference's pointer    *)
(* inside the file.  process_swagger_file never sets current_file, so the  *)
(* resolver returns {} for every such reference.                           *)
(***************************************************************************)
IsFileRef(ref) == ref # <<>> /\ ref # NoneText /\ Head(ref) # "#" /\ ~IsUrl(ref)

\* the document read from d.json
FileDocument ==
    [hasComponents |-> TRUE,
     components |-> [hasSchemas |-> TRUE, schemas |-> FileSchemas]]

C14_FileRefResolved ==
    \A i \in DOMAIN expanded :
        IsFileRef(expanded[i].ref)
        => expanded[i].schema = WalkPointer(FileDocument, PointerOf(expanded[i].ref))


(***************************************************************************)
(* C15.  A successful conversion returns, together with the ontology text, *)
(* the number of warnings (depth-limit and reference-resolution warnings)  *)
(* recorded during it.  Were the number part of what is returned, two      *)
(* conversions that return the same value would have recorded equally many *)
(* warnings.  convert_swagger returns the joined text and nothing else;    *)
(* the warnings are printed and not counted.                               *)
(***************************************************************************)
C15_ReturnTellsWarningCount ==
    \A i, j \in DOMAIN returned :
        returned[i] = returned[j] => warned[i] = warned[j]


(***************************************************************************)
(* C17.  Every operation under paths yields an operation class that is a   *)
(* subclass of the class of each of its tags; an operation without tags    *)
(* yields an operation class that is a subclass of the root class; no      *)
(* operation is dropped.  Stated of the text a conversion returns: for an  *)
(* operation with tags, the class <tag>_<operation id> under each tag; for *)
(* one without, some class named after the operation id that has a         *)
(* superclass.  _process_paths makes one class per tag, hence none for an  *)
(* operation without tags, and passes over the methods options and head.   *)
(***************************************************************************)
OperationId(path, method, operation) ==
    IF operation.operationId # NoneText THEN operation.operationId
    ELSE <<method, "_">> \o _sanitize_name(path)

HasSuffix(s, t) == Len(t) <= Len(s) /\ SubSeq(s, Len(s) - Len(t) + 1, Len(s)) = t

C17_EveryOperationHasClass ==
    pc = "done" =>
        \A i \in DOMAIN PathsOf(Doc) : \A j \in DOMAIN PathsOf(Doc)[i].item :
            LET path == PathsOf(Doc)[i].path
                entry == PathsOf(Doc)[i].item[j]
                tags == entry.operation.tags
            IN  IF tags # <<>>
                THEN \A k \in DOMAIN tags : \E n \in DOMAIN ttl_content :
                         /\ ttl_content[n].kind = "Class"
                         /\ ttl_content[n].id
                              = _sanitize_name(OperationClass(path, entry.method,
                                                              entry.operation, tags[k]))
                         /\ _sanitize_name(tags[k]) \in Range(ttl_content[n].supers)
                ELSE \E n \in DOMAIN ttl_content :
                         /\ ttl_content[n].kind = "Class"
                         /\ HasSuffix(ttl_content[n].label,
                                      OperationId(path, entry.method, entry.operation))
                         /\ ttl_content[n].supers # <<>>

(***************************************************************************)
(* C18.  Each declared response of an operation yields a response class    *)
(* that is a subclass of its operation class and, besides, of the class of *)
(* its status code's category when the code is a known one, and of the     *)
(* generic response class otherwise: in either case of a second class.     *)
(* _process_responses gives the response class its operation class as the  *)
(* only superclass.                                                        *)
(***************************************************************************)
C18_ResponseUnderOperationAndCategory ==
    pc = "done" =>
        \A i \in DOMAIN PathsOf(Doc) : \A j \in DOMAIN PathsOf(Doc)[i].item :
            LET path == PathsOf(Doc)[i].path
                entry == PathsOf(Doc)[i].item[j]
            IN  \A k \in DOMAIN entry.operation.tags :
                \A r \in DOMAIN entry.operation.responses :
                    LET operation_class == OperationClass(path, entry.method,
                                               entry.operation, entry.operation.tags[k])
                        response_class ==
                            operation_class \o <<"_", "Response", "_">>
                            \o entry.operation.responses[r].status_code
                    IN  entry.method \in ProcessedMethods =>
                        \E n \in DOMAIN ttl_content :
                            /\ ttl_content[n].kind = "Class"
                            /\ ttl_content[n].id = _sanitize_name(response_class)
                            /\ _sanitize_name(operation_class)
                                  \in Range(ttl_content[n].supers)
                            /\ Range(ttl_content[n].supers)
                                  # {_sanitize_name(operation_class)}

(***************************************************************************)
(* C20.  The document is emitted in declaration order: the prefixes, the   *)
(* ontology header, then all classes, then all object properties, then all *)
(* datatype properties; no property is emitted before a later class.       *)
(* Stated of the first conversion of a converter.  convert_swagger writes  *)
(* each class followed by its own properties, so the properties of one     *)
(* schema come before the class of the next.                               *)
(***************************************************************************)
SectionOf(kind) ==
    CASE kind = "Prefixes" -> 0
      [] kind = "Ontology" -> 1
      [] kind = "Class" -> 2
      [] kind = "ObjectProperty" -> 3
      [] kind = "DatatypeProperty" -> 4
      [] OTHER -> 5

C20_DeclarationOrder ==
    Len(started) <= 1 =>
        \A i, j \in DOMAIN ttl_content :
            i < j => SectionOf(ttl_content[i].kind) <= SectionOf(ttl_content[j].kind)


(***************************************************************************)
(* C16.  When a section of the tagged converter (schema classes, object    *)
(* properties, data properties, individuals) meets an unexpected internal  *)
(* error, the conversion as a whole fails and returns no text: a           *)
(* conversion that has returned its document has printed no section error. *)
(* Each of the four sections catches the exception, prints it and returns  *)
(* what it has written, "" for the schema classes; convert_to_rdf goes on  *)
(* and returns the document.                                               *)
(***************************************************************************)
C16_SectionErrorFailsConversion ==
    xpc = "done" => printed = <<>>


(***************************************************************************)
(* C19.  In the document a conversion returns, every property with a       *)
(* domain has its domain class declared by a class element of the          *)
(* document, and that element comes before the property.                   *)
(* generate_object_properties gives the properties it derives from nested  *)
(* paths the title-cased resource name as domain, a class no section       *)
(* declares.                                                               *)
(***************************************************************************)
PropertyKinds == {"ObjectProperty", "DatatypeProperty"}

DomainDeclaredBefore(out, i) ==
    \E j \in 1..(i - 1) : out[j].kind = "Class" /\ out[j].about = out[i].domain

C19_DomainDeclaredBeforeProperty ==
    \A r \in DOMAIN rdf_returned :
        \A i \in DOMAIN rdf_returned[r] :
            (/\ rdf_returned[r][i].kind \in PropertyKinds
             /\ rdf_returned[r][i].domain # NoDomain)
                => DomainDeclaredBefore(rdf_returned[r], i)

\* the documents whose tag names and descriptions hold characters reserved in
\* XML: one path with a get and a post operation
ReservedTagLists == {<<>>, << <<"T">> >>, << <<"T", "&", "U">> >>,
                     << <<"T">>, <<"T", "&", "U">> >>}

EscapeDocuments ==
    {[info |-> [title |-> title, description |-> <<>>, version |-> <<"1">>],
      tags |-> tagdefs,
      hasServers |-> FALSE,
      servers |-> <<>>,
      schemas |-> <<>>,
      paths |-> <<[path |-> <<"/", "a">>,
                   item |-> <<TaggedOperation("get", t1),
                              TaggedOperation("post", t2)>>]>>] :
        title \in {<<"a">>, <<"a", "<", "b">>},
        tagdefs \in {<<>>, <<[name |-> <<"T", "&", "U">>,
                              description |-> <<"a", "<", "b">>]>>},
        t1 \in ReservedTagLists, t2 \in ReservedTagLists}

InitEscape ==
    /\ swagger_data \in {<<d>> : d \in EscapeDocuments}
    /\ today = 0
    /\ controllers = <<>>
    /\ endpoints = <<>>
    /\ classes = {}
    /\ object_properties = {}
    /\ data_properties = {}
    /\ printed = <<>>
    /\ rdf_output = <<>>
    /\ xpc = "idle"
    /\ rdf_returned = <<>>
    /\ IdleConverter
    /\ arg = [text |-> <<>>, type |-> "string", format |-> None]
    /\ ret = RetInit

SpecEscape == InitEscape /\ [][NextXml]_vars

\* a text of the tagged form holds no character reserved in XML: every "&"
\* opens an entity, and no "<", ">" or quote stands in it
Entities == {"amp", "lt", "gt", "quot", "#"}

XmlEscaped(text) ==
    \A i \in DOMAIN text :
        /\ text[i] \notin {"<", ">", "\"", "'"}
        /\ text[i] = "&" => (i < Len(text) /\ text[i + 1] \in Entities)

\* the texts of an element of the output that are taken from the document
TextFields == {"label", "comment", "description", "title"}

\* C21: every text taken from the input document is escaped before it is
\* written; in the tagged form no label, comment, description or title of the
\* output holds a reserved character of XML that is not part of an entity
C21_InputTextEscaped ==
    \A i \in DOMAIN rdf_output :
        \A f \in TextFields \cap DOMAIN rdf_output[i] :
            XmlEscaped(rdf_output[i][f])

\* the properties of a component schema that hold a plain value
IsPrimitive(prop_def) ==
    /\ prop_def.ref = NoneText
    /\ prop_def.type \in {"string", "integer", "number", "boolean"}

\* the DatatypeProperty elements of a document for property p of schema S
DataPropertiesFor(out, schema_name, prop_name) ==
    {j \in DOMAIN out : /\ out[j].kind = "DatatypeProperty"
                        /\ out[j].about = Uri(Data, prop_name)
                        /\ out[j].domain = Uri(Data, schema_name)}

\* C22: for every component schema S and every primitive property p of S a
\* returned document declares exactly one DatatypeProperty for p with domain
\* S, whose range is the result of the type mapper and whose required flag
\* tells whether p is in S.required
C22_OneDataPropertyPerPrimitive ==
    \A r \in DOMAIN rdf_returned : \A i \in DOMAIN Data.schemas :
        IsDict(Data.schemas[i].schema) =>
            \A k \in DOMAIN Data.schemas[i].schema.properties :
                LET S == Data.schemas[i]
                    p == S.schema.properties[k]
                    found == DataPropertiesFor(rdf_returned[r], S.name, p.name)
                IN  IsPrimitive(p.def) =>
                        /\ Cardinality(found) = 1
                        /\ \A j \in found :
                              /\ rdf_returned[r][j].range
                                   = <<"xsd:", _get_xsd_type(p.def)>>
                              /\ rdf_returned[r][j].required
                                   = (p.name \in S.schema.required)

\* the stanzas of a text of the given kind and identifier
StanzasOf(text, kind, id) ==
    {j \in DOMAIN text : text[j].kind = kind /\ text[j].id = id}

\* the array properties of the component schemas whose items are a '$ref'
ArrayOfRefProperties(doc) ==
    UNION {
        {[owner |-> doc.components.schemas[i].name,
          prop_name |-> doc.components.schemas[i].schema.properties[k].name,
          item |-> LastSegment(
                       doc.components.schemas[i].schema.properties[k].def.items.ref)] :
            k \in {n \in DOMAIN doc.components.schemas[i].schema.properties :
                      LET d == doc.components.schemas[i].schema.properties[n].def
                      IN  d.type = "array" /\ d.hasItems /\ d.items.ref # NoneText}} :
        i \in DOMAIN doc.components.schemas}

\* C23: for a component schema (Owner) with a property (pets) that is an
\* array of '$ref' to a schema (Pet), the text of the first conversion holds
\* the class Owner, an ObjectProperty of the property with domain Owner that is
\* a collection of Pet, and the class Pet exactly once
C23_CollectionOfReferencedClass ==
    (Len(started) = 1 /\ returned # <<>>) =>
        \A a \in ArrayOfRefProperties(swagger_doc[1]) :
            /\ StanzasOf(returned[1], "Class", _sanitize_name(a.owner)) # {}
            /\ \E j \in DOMAIN returned[1] :
                  /\ returned[1][j].kind = "ObjectProperty"
                  /\ returned[1][j].domain = _sanitize_name(a.owner)
                  /\ returned[1][j].range = Collection
                  /\ returned[1][j].itemType = _sanitize_name(a.item)
            /\ Cardinality(StanzasOf(returned[1], "Class", _sanitize_name(a.item))) = 1

\* the documents with array properties of every kind of items (a '$ref', an
\* inline object, a plain value, and no items at all) and with a schema
\* composed by allOf, and the documents with operations and no tags section
ArrayWithoutItems == [EmptySchema EXCEPT !.type = "array"]

\* a schema with the keys 'properties' and 'allOf'
Composed(props, parts) ==
    [ref |-> NoneText, type |-> "object", format |-> None, hasItems |-> FALSE,
     items |-> NoItems, hasProperties |-> TRUE, properties |-> props,
     required |-> {}, description |-> <<>>, allOf |-> parts]

ArraySchemaSets ==
    LET Named(n, props, req) == [name |-> <<n>>, schema |-> ObjectValue(props, req)]
        nested == ObjectValue(<<Prop(<<"p">>, RefValue(RefTo("A")))>>, {})
    IN  {<<[name |-> <<"A">>,
            schema |-> Composed(<<Prop(<<"p">>, PrimValue("integer", None))>>,
                           <<RefValue(RefTo("B")),
                             ObjectValue(<<Prop(<<"r">>, PrimValue("string", None))>>,
                                         {})>>)],
           Named("B", <<Prop(<<"q">>, PrimValue("string", None))>>, {})>>,
         <<Named("A", <<Prop(<<"p">>, ArrayOfObject),
                        Prop(<<"q">>, ArrayOfPrim("integer", "int64"))>>, {<<"q">>})>>,
         <<Named("A", <<Prop(<<"p">>, ArrayWithoutItems),
                        Prop(<<"q">>, ArrayOfPrim("string", "date"))>>, {})>>,
         <<Named("A", <<Prop(<<"p">>, RefValue(RefTo("A"))),
                        Prop(<<"q">>, ArrayOfRef(RefTo("A")))>>, {<<"p">>})>>,
         <<Named("A", <<Prop(<<"p">>, ArrayOfRef(RefTo("B"))),
                        Prop(<<"q">>, nested)>>, {}),
           Named("B", <<Prop(<<"p">>, BareObject),
                        Prop(<<"q">>, PrimValue("number", None))>>, {<<"p">>})>>}

\* a document whose operations are tagged T and that has no tags section
Untagged(doc) == [doc EXCEPT !.tags = <<>>]

ArrayDocuments ==
    {Document(paths, schemas) : paths \in PathSets, schemas \in ArraySchemaSets}
    \cup {Untagged(Document(paths, <<>>)) : paths \in PathSets \ {<<>>}}

InitArrays ==
    /\ inputs \in {<<d>> : d \in ArrayDocuments}
                  \cup {<<d1, d2>> : d1 \in {d \in ArrayDocuments : d.paths = <<>>},
                                     d2 \in {d \in ArrayDocuments : d.paths = <<>>}}
    /\ swagger_doc = <<>>
    /\ ttl_content = <<>>
    /\ processed_refs = {}
    /\ stack = <<>>
    /\ pc = "idle"
    /\ todo = <<>>
    /\ warnings = <<>>
    /\ written_at = <<>>
    /\ expanded = <<>>
    /\ started = <<>>
    /\ returned = <<>>
    /\ external_docs = <<>>
    /\ fetched = <<>>
    /\ fetch_errors = <<>>
    /\ raised = <<>>
    /\ warned = <<>>
    /\ arg = [text |-> <<>>, type |-> "string", format |-> None]
    /\ ret = RetInit
    /\ IdleXml

SpecArrays == InitArrays /\ [][Next]_vars

\* the array properties of the component schemas, with their items
ArrayProperties(doc) ==
    UNION {
        {[owner |-> doc.components.schemas[i].name,
          prop_name |-> doc.components.schemas[i].schema.properties[k].name,
          items |-> ItemsOf(doc.components.schemas[i].schema.properties[k].def)] :
            k \in {n \in DOMAIN doc.components.schemas[i].schema.properties :
                      doc.components.schemas[i].schema.properties[n].def.type = "array"}} :
        i \in DOMAIN doc.components.schemas}

\* the stanzas of a text written for property prop_name of class owner
PropertyStanzas(text, kind, owner, id) ==
    {j \in DOMAIN text : /\ text[j].kind = kind
                         /\ text[j].id = _sanitize_name(id)
                         /\ text[j].domain = _sanitize_name(owner)}

\* C24: in the text of the first conversion of a converter, an
\* array property whose items are a '$ref' or an inline object has a
\* subordinate class and an ObjectProperty that is a collection; an array
\* property with any other items has a DatatypeProperty that is a collection
\* of the type mapper's result for the items' type and format
C24_ArrayPropertyByItems ==
    (Len(started) = 1 /\ returned # <<>>) =>
        \A a \in ArrayProperties(swagger_doc[1]) :
            LET item_class == a.owner \o <<"_">> \o a.prop_name \o <<"_", "Item">>
                object == PropertyStanzas(returned[1], "ObjectProperty", a.owner,
                                          <<"has", "_">> \o a.prop_name)
                data == PropertyStanzas(returned[1], "DatatypeProperty", a.owner,
                                        a.prop_name)
            IN  IF a.items.ref # NoneText \/ a.items.type = "object"
                THEN /\ StanzasOf(returned[1], "Class", _sanitize_name(item_class)) # {}
                     /\ \E j \in object :
                           /\ returned[1][j].range = Collection
                           /\ returned[1][j].itemType = _sanitize_name(item_class)
                ELSE \E j \in data :
                        /\ returned[1][j].range = Collection
                        /\ returned[1][j].itemType
                             = <<_map_type_to_xsd(PropType(a.items), a.items.format)>>

\* the schema a part of allOf stands for: the component a '$ref' names, or
\* the inline part itself
PartSchema(doc, part) ==
    IF part.ref = NoneText THEN part
    ELSE LET named == {i \in DOMAIN doc.components.schemas :
                          doc.components.schemas[i].name = LastSegment(part.ref)}
         IN  doc.components.schemas[CHOOSE i \in named : TRUE].schema

\* the properties of the parts of the allOf of the component schemas
AllOfProperties(doc) ==
    UNION {
        UNION {
            {[owner |-> doc.components.schemas[i].name,
              prop_name |-> PartSchema(doc, doc.components.schemas[i].schema.allOf[k])
                                .properties[n].name] :
                n \in DOMAIN PartSchema(doc, doc.components.schemas[i].schema.allOf[k])
                                 .properties} :
            k \in DOMAIN doc.components.schemas[i].schema.allOf} :
        i \in {j \in DOMAIN doc.components.schemas :
                  "allOf" \in DOMAIN doc.components.schemas[j].schema}}

\* C25: every property of every part of the allOf of a component schema has
\* a property stanza whose domain is the composed schema
C25_AllOfPartsMerged ==
    (Len(started) = 1 /\ returned # <<>>) =>
        \A a \in AllOfProperties(swagger_doc[1]) :
            \/ PropertyStanzas(returned[1], "DatatypeProperty", a.owner,
                               a.prop_name) # {}
            \/ PropertyStanzas(returned[1], "ObjectProperty", a.owner,
                               <<"has", "_">> \o a.prop_name) # {}

\* the operations of a document: its distinct pairs of path and method, for
\* the methods extract_controllers_and_endpoints takes
OperationPairs(data) ==
    {[path |-> OperationsOf(data)[i].path, method |-> OperationsOf(data)[i].method] :
        i \in DOMAIN OperationsOf(data)}

\* the classes of the endpoints in a document
EndpointClasses(out) ==
    {out[j].about : j \in {n \in DOMAIN out :
        /\ out[n].kind = "Class"
        /\ "label" \notin DOMAIN out[n]
        /\ \E m \in DOMAIN http_methods :
              Uri(Data, http_methods[m].value) \in Range(out[n].subClassOf)}}

\* C26: every operation of the document, a distinct pair of method and
\* path, has its own entry in self.endpoints and its own class in the returned
\* document: no two operations share an entry or a class
C26_OperationsKeptApart ==
    /\ xpc \notin {"idle", "new"} =>
          Len(endpoints) = Cardinality(OperationPairs(Data))
    /\ \A r \in DOMAIN rdf_returned :
          Cardinality(EndpointClasses(rdf_returned[r]))
              = Cardinality(OperationPairs(Data))

\* the properties of a schema that are a '$ref' or an array with '$ref' items
ReferenceProperties(schema) ==
    {schema.properties[k].name :
        k \in {n \in DOMAIN schema.properties :
                  LET d == schema.properties[n].def
                  IN  \/ d.ref # NoneText
                      \/ d.ref = NoneText /\ d.type = "array" /\ ItemsOf(d).ref # NoneText}}

\* the schemas whose properties the first conversion went through, each with
\* the class it was expanded under: the component schemas, and the schemas of
\* the references expanded below the depth limit
ExpandedSchemas ==
    {[class_name |-> swagger_doc[1].components.schemas[i].name,
      schema |-> swagger_doc[1].components.schemas[i].schema] :
        i \in DOMAIN swagger_doc[1].components.schemas}
    \cup {[class_name |-> expanded[i].ref_class, schema |-> expanded[i].schema] :
             i \in {n \in DOMAIN expanded :
                       ~DepthReached(NestedDepth(expanded[n].depth))}}

\* C27: in the text of the first conversion every property that is a '$ref'
\* or an array of '$ref', of every schema that was expanded, has an
\* ObjectProperty whose domain is the class the schema was expanded under
C27_ReferencePropertyAlwaysWritten ==
    (Len(started) = 1 /\ returned # <<>>) =>
        \A e \in ExpandedSchemas : \A name \in ReferenceProperties(e.schema) :
            PropertyStanzas(returned[1], "ObjectProperty", e.class_name,
                            <<"has", "_">> \o name) # {}

\* the ObjectProperty elements of a document written for property prop_name
\* of schema schema_name
ObjectPropertiesFor(out, schema_name, prop_name) ==
    {j \in DOMAIN out : /\ out[j].kind = "ObjectProperty"
                        /\ out[j].about = Uri(Data, prop_name)
                        /\ "range" \in DOMAIN out[j]
                        /\ out[j].domain = Uri(Data, schema_name)}

\* C28: whenever _is_object_property holds for a property of a component
\* schema, _extract_range_class names a class, and the ObjectProperty written
\* for the property carries a range
C28_ObjectPropertyHasRange ==
    \A r \in DOMAIN rdf_returned : \A i \in DOMAIN Data.schemas :
        IsDict(Data.schemas[i].schema) =>
            \A k \in DOMAIN Data.schemas[i].schema.properties :
                LET p == Data.schemas[i].schema.properties[k]
                IN  _is_object_property(p.def) =>
                        /\ _extract_range_class(p.def) # NoneText
                        /\ \A j \in ObjectPropertiesFor(rdf_returned[r],
                                        Data.schemas[i].name, p.name) :
                              rdf_returned[r][j].range
                                  = Uri(Data, _extract_range_class(p.def))

\* the placeholders of the paths of the operations, each with the key of its
\* entry in self.parameters
Placeholders(data) ==
    UNION {
        {[param_id |-> sanitize_for_uri(EndpointId(OperationsOf(data)[i])
                                        \o <<"-", "param", "-">>
                                        \o extract_path_parameters(
                                               OperationsOf(data)[i].path)[k])] :
            k \in DOMAIN extract_path_parameters(OperationsOf(data)[i].path)} :
        i \in DOMAIN OperationsOf(data)}

\* C29: once extract_controllers_and_endpoints has run, self.parameters holds
\* for every placeholder of the path of every operation an entry whose
\* location is 'path', and the returned document types the parameter as a
\* path parameter
C29_PlaceholderIsPathParameter ==
    /\ xpc \notin {"idle", "new"} =>
          \A h \in Placeholders(Data) :
              /\ HasKey(ParametersOf(OperationsOf(Data)), h.param_id)
              /\ Lookup(ParametersOf(OperationsOf(Data)), h.param_id).in = <<"path">>
    /\ \A r \in DOMAIN rdf_returned : \A h \in Placeholders(Data) :
          \E j \in DOMAIN rdf_returned[r] :
              /\ rdf_returned[r][j].kind = "NamedIndividual"
              /\ rdf_returned[r][j].about = Uri(Data, h.param_id)
              /\ rdf_returned[r][j].type = Uri(Data, Lookup(param_types, <<"path">>))

\* C30: in the text of the first conversion every class named as a superclass
\* of a class is declared as a class of the text; so is the class of the tag
\* of every operation class, listed in the tags section or not
C30_SuperclassDeclared ==
    (Len(started) = 1 /\ returned # <<>>) =>
        \A n \in DOMAIN returned[1] :
            returned[1][n].kind = "Class" =>
                \A k \in DOMAIN returned[1][n].supers :
                    StanzasOf(returned[1], "Class", returned[1][n].supers[k]) # {}


=============================================================================
